---- MODULE Spec2Model ----
(***************************************************************************)
(* A model of src/peft/tuners/lora.py (the live definitions, lines         *)
(* 429-1059): the LoRA layers Linear and Embedding (LoraLayer mixin) and   *)
(* the injection engine LoraModel.                                         *)
(*                                                                         *)
(* Conventions.                                                            *)
(*  - A Python string is a sequence of one-character strings, so that      *)
(*    `in`, endswith and re.fullmatch are computed on characters.          *)
(*  - A tensor is a matrix [r, c, v]: v[i][j] for i in 1..r, j in 1..c.    *)
(*  - Arithmetic is exact.  scaling = lora_alpha / r is a rational; it and *)
(*    every quantity it is multiplied into (base weight, bias, forward     *)
(*    output) are held as integers in units of 1/Den, where every rank     *)
(*    divides Den.  Factor tensors and inputs are plain integers.          *)
(*  - A raised Python exception is the err field of an operator's result.  *)
(*  - The base model is not quantized (is_loaded_in_8bit is false).        *)
(***************************************************************************)
EXTENDS Integers, Sequences, FiniteSets, TLC

VARIABLES
    tree,         \* self.model: module key -> module object
    peft_config,  \* self.peft_config: ordered dict, a sequence of [name, cfg]
    configs,      \* the LoraConfig objects, by identity
    pc,           \* "new" before LoraModel.__init__, then "ready" or "failed"
    call,         \* the last call made and how it ended
    hist          \* history: the base weights as constructed, the number of
                  \* update_layer calls and active_adapter assignments made,
                  \* and whether all of them were made on an unmerged layer

vars == <<tree, peft_config, configs, pc, call, hist>>

----------------------------------------------------------------------------
(* Bounds *)

MaxRank == 2      \* ranks r are drawn from 1..MaxRank
MaxSeed == 2      \* random initialisations are drawn from seeds 1..MaxSeed
MaxAlpha == 2     \* lora_alpha is drawn from 1..MaxAlpha
MaxUpdates == 2   \* update_layer calls and active_adapter assignments made on a layer

RECURSIVE Fact(_)
Fact(n) == IF n <= 1 THEN 1 ELSE n * Fact(n - 1)

\* every rank in 1..MaxRank divides Den
Den == Fact(MaxRank)

\* Python None where a string is expected (an exception kind, a bias policy)
None == "None"

\* Python None where an object is expected (a parameter, a config, a module)
Nil == [nil |-> TRUE]

----------------------------------------------------------------------------
(* Python strings *)

Dot == <<".">>
S_a == <<"a">>
S_b == <<"b">>
S_c == <<"c">>
S_q == <<"q">>
S_v == <<"v">>
S_e == <<"e">>
S_h == <<"h">>
S_n == <<"n">>
S_x == <<"x">>
S_lora == <<"l", "o", "r", "a">>
S_lora_ == S_lora \o <<"_">>
S_bias == <<"b", "i", "a", "s">>
S_weight == <<"w", "e", "i", "g", "h", "t">>
S_baseline_lora == <<"b", "a", "s", "e", "l", "i", "n", "e", "_">> \o S_lora
S_lora_dropout == S_lora_ \o <<"d", "r", "o", "p", "o", "u", "t">>
S_lora_A == S_lora_ \o <<"A">>
S_lora_B == S_lora_ \o <<"B">>
S_loranew_A == S_lora \o <<"n", "e", "w", "_", "A">>
S_loranew_B == S_lora \o <<"n", "e", "w", "_", "B">>
S_lora_embedding_A == S_lora_ \o <<"e", "m", "b", "e", "d", "d", "i", "n", "g", "_", "A">>
S_lora_embedding_B == S_lora_ \o <<"e", "m", "b", "e", "d", "d", "i", "n", "g", "_", "B">>

\* sub in s
Contains(s, sub) ==
    \E i \in 0..(Len(s) - Len(sub)) : SubSeq(s, i + 1, i + Len(sub)) = sub

\* s.endswith(suf)
EndsWith(s, suf) ==
    /\ Len(suf) <= Len(s)
    /\ SubSeq(s, Len(s) - Len(suf) + 1, Len(s)) = suf

\* the dotted name of child `name` under the module named `prefix`
Join(prefix, name) == IF prefix = <<>> THEN name ELSE prefix \o Dot \o name

----------------------------------------------------------------------------
(* Tensors *)

RECURSIVE SumTo(_, _)
SumTo(f, n) == IF n = 0 THEN 0 ELSE f[n] + SumTo(f, n - 1)

Zeros(rows, cols) == [r |-> rows, c |-> cols,
                      v |-> [i \in 1..rows |-> [j \in 1..cols |-> 0]]]

\* a value of a random initialiser (kaiming_uniform_, normal_), by seed
Rand(rows, cols, seed) ==
    [r |-> rows, c |-> cols,
     v |-> [i \in 1..rows |-> [j \in 1..cols |-> ((seed + i + 2 * j) % 3) - 1]]]

\* X.T
T(X) == [r |-> X.c, c |-> X.r,
         v |-> [i \in 1..X.c |-> [j \in 1..X.r |-> X.v[j][i]]]]

\* X @ Y
MatMul(X, Y) ==
    [r |-> X.r, c |-> Y.c,
     v |-> [i \in 1..X.r |-> [j \in 1..Y.c |->
              SumTo([k \in 1..X.c |-> X.v[i][k] * Y.v[k][j]], X.c)]]]

MatAdd(X, Y) == [r |-> X.r, c |-> X.c,
                 v |-> [i \in 1..X.r |-> [j \in 1..X.c |-> X.v[i][j] + Y.v[i][j]]]]

MatSub(X, Y) == [r |-> X.r, c |-> X.c,
                 v |-> [i \in 1..X.r |-> [j \in 1..X.c |-> X.v[i][j] - Y.v[i][j]]]]

\* X * s
Scale(X, s) == [r |-> X.r, c |-> X.c,
                v |-> [i \in 1..X.r |-> [j \in 1..X.c |-> X.v[i][j] * s]]]

\* elementwise product
Hadamard(X, Y) == [r |-> X.r, c |-> X.c,
                   v |-> [i \in 1..X.r |-> [j \in 1..X.c |-> X.v[i][j] * Y.v[i][j]]]]

IsZero(X) == \A i \in 1..X.r : \A j \in 1..X.c : X.v[i][j] = 0

\* utils.transpose(weight, fan_in_fan_out)
transpose(weight, fan_in_fan_out) == IF fan_in_fan_out THEN T(weight) ELSE weight

\* An nn.Parameter: its identity, its data and its requires_grad flag.
Param(id, data, rg) == [id |-> id, data |-> data, requires_grad |-> rg]

\* F.linear(x, W, bias) for one input row x (1 x in): x @ W.T + bias
F_linear(x, W, bias) ==
    IF bias = Nil THEN MatMul(x, T(W)) ELSE MatAdd(MatMul(x, T(W)), bias.data)

\* F.embedding(i, table): row i of the table, as a 1 x dim matrix
F_embedding(i, table) ==
    [r |-> 1, c |-> table.c, v |-> [k \in 1..1 |-> [j \in 1..table.c |-> table.v[i][j]]]]

----------------------------------------------------------------------------
(* Python dicts keyed by adapter name *)

EmptyDict == [n \in {} |-> None]

Put(d, k, x) == [n \in (DOMAIN d) \cup {k} |-> IF n = k THEN x ELSE d[n]]

----------------------------------------------------------------------------
(* LoraLayer *)

\* LoraLayer.__init__
LoraLayer_init(in_features, out_features) ==
    [r |-> EmptyDict, lora_alpha |-> EmptyDict, scaling |-> EmptyDict,
     lora_dropout |-> EmptyDict,
     lora_A |-> EmptyDict, lora_B |-> EmptyDict,
     loranew_A |-> EmptyDict, loranew_B |-> EmptyDict,
     lora_embedding_A |-> EmptyDict, lora_embedding_B |-> EmptyDict,
     merged |-> FALSE, disable_adapters |-> FALSE,
     in_features |-> in_features, out_features |-> out_features]

Ok(L) == [err |-> None, layer |-> L]
Raise(e, L) == [err |-> e, layer |-> L]

\* lora_alpha / r, in units of 1/Den (r > 0)
Scaling(lora_alpha, r) == (lora_alpha * Den) \div r

\* a reset that initialises the primary and embedding pairs as
\* reset_lora_parameters does but leaves the new pair as nn.Linear built it
reset_keeping_new_pair(L, adapter_name, seed) ==
    LET L1 == IF adapter_name \in DOMAIN L.lora_A
              THEN [L EXCEPT
                      !.lora_A[adapter_name].data = Zeros(@.r, @.c),
                      !.lora_B[adapter_name].data = Zeros(@.r, @.c)]
              ELSE L
    IN  IF adapter_name \in DOMAIN L1.lora_embedding_A
        THEN [L1 EXCEPT
                !.lora_embedding_A[adapter_name].data = Zeros(@.r, @.c),
                !.lora_embedding_B[adapter_name].data = Rand(@.r, @.c, seed)]
        ELSE L1

\* LoraLayer.reset_lora_parameters
reset_lora_parameters(L, adapter_name, seed) ==
    LET L1 == IF adapter_name \in DOMAIN L.lora_A
              THEN [L EXCEPT
                      !.lora_A[adapter_name].data = Zeros(@.r, @.c),
                      !.lora_B[adapter_name].data = Zeros(@.r, @.c)]
              ELSE L
        L2 == IF adapter_name \in DOMAIN L1.lora_embedding_A
              THEN [L1 EXCEPT
                      !.lora_embedding_A[adapter_name].data = Zeros(@.r, @.c),
                      !.lora_embedding_B[adapter_name].data = Rand(@.r, @.c, seed)]
              ELSE L1
    IN  IF adapter_name \in DOMAIN L2.loranew_A
        THEN [L2 EXCEPT
                !.loranew_A[adapter_name].data = Rand(@.r, @.c, seed),
                !.loranew_B[adapter_name].data = Zeros(@.r, @.c)]
        ELSE L2

\* LoraLayer._initialize_adapter
initialize_adapter(L, adapter_name, r, lora_alpha, lora_dropout, r_sum, init_lora_weights, seed) ==
    LET L1 == [L EXCEPT !.r = Put(@, adapter_name, r),
                        !.lora_alpha = Put(@, adapter_name, lora_alpha)]
        L2 == [L1 EXCEPT
                 !.scaling = Put(@, adapter_name, Scaling(lora_alpha, r)),
                 !.lora_dropout = Put(@, adapter_name, lora_dropout)]
        \* nn.Linear(..., bias=False): default (random) initialisation
        L3 == IF r > 0
              THEN [L2 EXCEPT
                      !.loranew_A = Put(@, adapter_name,
                          Param(0, Rand(r, L.in_features, seed), TRUE)),
                      !.loranew_B = Put(@, adapter_name,
                          Param(0, Rand(L.out_features, r, seed + 1), TRUE)),
                      !.lora_A = Put(@, adapter_name,
                          Param(0, Rand(r_sum, L.in_features, seed + 1), TRUE)),
                      !.lora_B = Put(@, adapter_name,
                          Param(0, Rand(L.out_features, r_sum, seed), TRUE))]
              ELSE L2
    IN  IF r = 0 THEN Raise("ZeroDivisionError", L1)
        ELSE IF init_lora_weights
             THEN Ok(reset_lora_parameters(L3, adapter_name, seed))
             ELSE Ok(L3)

\* LoraLayer.update_layer
update_layer(L, adapter_name, r, lora_alpha, lora_dropout, init_lora_weights, r_sum, use_baseline_lora, seed) ==
    IF use_baseline_lora /\ S_baseline_lora \in DOMAIN L.lora_A
    THEN LET L1 == [L EXCEPT !.r = Put(@, S_baseline_lora, r),
                             !.lora_alpha = Put(@, S_baseline_lora, lora_alpha)]
         IN  IF r = 0 THEN Raise("ZeroDivisionError", L1)
             ELSE Ok([L1 EXCEPT
                        !.scaling = Put(@, S_baseline_lora, Scaling(lora_alpha, r)),
                        !.lora_dropout = Put(@, S_baseline_lora, lora_dropout)])
    ELSE initialize_adapter(L, adapter_name, r, lora_alpha, lora_dropout, r_sum,
                            init_lora_weights, seed)

\* LoraLayer.update_layer_embedding
update_layer_embedding(L, adapter_name0, r, lora_alpha, lora_dropout, init_lora_weights, use_baseline_lora, seed) ==
    LET adapter_name == IF use_baseline_lora THEN S_baseline_lora ELSE adapter_name0
        L1 == [L EXCEPT !.r = Put(@, adapter_name, r),
                        !.lora_alpha = Put(@, adapter_name, lora_alpha),
                        !.lora_dropout = Put(@, adapter_name, lora_dropout)]
        \* self.weight.new_zeros(...)
        L2 == IF r > 0
              THEN [L1 EXCEPT
                      !.lora_embedding_A = Put(@, adapter_name,
                          Param(0, Zeros(r, L.in_features), TRUE)),
                      !.lora_embedding_B = Put(@, adapter_name,
                          Param(0, Zeros(L.out_features, r), TRUE)),
                      !.scaling = Put(@, adapter_name, Scaling(lora_alpha, r))]
              ELSE L1
    IN  IF adapter_name \in DOMAIN L.lora_embedding_A THEN Ok(L)
        ELSE IF init_lora_weights
             THEN Ok(reset_lora_parameters(L2, adapter_name, seed))
             ELSE Ok(L2)

----------------------------------------------------------------------------
(* Linear(nn.Linear, LoraLayer) *)

\* the end of Linear.__init__ and Embedding.__init__ once update_layer or
\* update_layer_embedding ended as u: self.active_adapter = adapter_name
SetActive(u, adapter_name) ==
    IF u.err # None THEN u
    ELSE Ok([u.layer EXCEPT !.active_adapter = adapter_name])

\* the object before Linear.__init__ calls update_layer: nn.Linear.__init__,
\* LoraLayer.__init__, weight.requires_grad = False, reset_parameters
Linear_base(a, id, seed) ==
    LoraLayer_init(a.in_features, a.out_features) @@
    [kind |-> "LoraLinear", oid |-> id,
     weight |-> IF a.fan_in_fan_out
                THEN Param(id, Rand(a.in_features, a.out_features, seed), FALSE)
                ELSE Param(id, Rand(a.out_features, a.in_features, seed), FALSE),
     bias |-> IF a.bias
              THEN Param(id, Rand(1, a.out_features, seed), TRUE)
              ELSE Nil,
     fan_in_fan_out |-> a.fan_in_fan_out,
     active_adapter |-> <<>>]

\* Linear.__init__; a holds the arguments, id the identity of the new object
Linear_init(a, id, seed) ==
    SetActive(update_layer(Linear_base(a, id, seed), a.adapter_name, a.r,
                           a.lora_alpha, a.lora_dropout, a.init_lora_weights,
                           a.r_sum, a.use_baseline_lora, seed),
              a.adapter_name)

\* a resolution that looks at active_adapter only
active_adapter_only(L) == L.active_adapter

\* Linear._get_active_adapter_name
Linear_get_active_adapter_name(L) ==
    IF S_baseline_lora \in DOMAIN L.lora_A THEN S_baseline_lora ELSE L.active_adapter

\* the weight delta of one factor pair: transpose(B @ A, fan_in_fan_out) * scaling
Delta(B, A, fan_in_fan_out, scaling) ==
    Scale(transpose(MatMul(B.data, A.data), fan_in_fan_out), scaling)

\* Linear._merge_weights
Linear_merge_weights(L, adapter_name) ==
    IF L.r[adapter_name] > 0
    THEN LET w1 == MatAdd(L.weight.data,
                          Delta(L.lora_B[adapter_name], L.lora_A[adapter_name],
                                L.fan_in_fan_out, L.scaling[adapter_name]))
             w2 == IF adapter_name \in DOMAIN L.loranew_A
                   THEN MatAdd(w1,
                          Delta(L.loranew_B[adapter_name], L.loranew_A[adapter_name],
                                L.fan_in_fan_out, L.scaling[adapter_name]))
                   ELSE w1
         IN  [L EXCEPT !.weight.data = w2]
    ELSE L

\* a merge without the test of the merged flag
merge_without_flag_test(L) ==
    LET adapter_name == Linear_get_active_adapter_name(L)
    IN  IF adapter_name \notin DOMAIN L.lora_A THEN L
        ELSE [Linear_merge_weights(L, adapter_name) EXCEPT !.merged = TRUE]

\* Linear.merge
Linear_merge(L) ==
    LET adapter_name == Linear_get_active_adapter_name(L)
    IN  IF adapter_name \notin DOMAIN L.lora_A THEN L
        ELSE IF L.merged THEN L
        ELSE [Linear_merge_weights(L, adapter_name) EXCEPT !.merged = TRUE]

\* an unmerge that subtracts the primary pair's delta only
unmerge_primary_pair_only(L, adapter_name) ==
    IF L.r[adapter_name] > 0
    THEN [L EXCEPT !.weight.data =
            MatSub(@, Delta(L.lora_B[adapter_name], L.lora_A[adapter_name],
                            L.fan_in_fan_out, L.scaling[adapter_name]))]
    ELSE L

\* Linear._unmerge_weights
Linear_unmerge_weights(L, adapter_name) ==
    IF L.r[adapter_name] > 0
    THEN LET w1 == MatSub(L.weight.data,
                          Delta(L.lora_B[adapter_name], L.lora_A[adapter_name],
                                L.fan_in_fan_out, L.scaling[adapter_name]))
             w2 == IF adapter_name \in DOMAIN L.loranew_A
                   THEN MatSub(w1,
                          Delta(L.loranew_B[adapter_name], L.loranew_A[adapter_name],
                                L.fan_in_fan_out, L.scaling[adapter_name]))
                   ELSE w1
         IN  [L EXCEPT !.weight.data = w2]
    ELSE L

\* Linear.unmerge
Linear_unmerge(L) ==
    LET adapter_name == Linear_get_active_adapter_name(L)
    IN  IF adapter_name \notin DOMAIN L.lora_A THEN L
        ELSE IF ~L.merged THEN L
        ELSE [Linear_unmerge_weights(L, adapter_name) EXCEPT !.merged = FALSE]

\* nn.Dropout(p)(x) in training mode with the given keep mask (nn.Identity,
\* p = 0, keeps everything); p is in percent and kept entries are scaled by
\* 1 / (1 - p)
Dropout(p, x, mask) ==
    IF p > 0 THEN Scale(Hadamard(x, mask), 100 \div (100 - p)) ELSE x

\* the keep masks of an input row of n entries
Masks(n) == {[r |-> 1, c |-> n, v |-> [i \in 1..1 |-> m]] : m \in [1..n -> {0, 1}]}

\* module(x) of a bias-free nn.Linear with weight W: x @ W.T
Apply(W, x) == MatMul(x, T(W.data))

\* Linear.forward: the layer afterwards and the result
Linear_forward(L, x, mask) ==
    LET adapter_name == Linear_get_active_adapter_name(L)
        base(M) == F_linear(x, transpose(M.weight.data, M.fan_in_fan_out), M.bias)
    IN  IF adapter_name \notin DOMAIN L.lora_A
        THEN [layer |-> L, out |-> base(L)]
        ELSE IF L.disable_adapters
        THEN LET L1 == IF L.r[adapter_name] > 0 /\ L.merged
                       THEN Linear_unmerge(L) ELSE L
             IN  [layer |-> L1, out |-> base(L1)]
        ELSE IF L.r[adapter_name] > 0 /\ ~L.merged
        THEN LET xd == Dropout(L.lora_dropout[adapter_name], x, mask)
                 r1 == MatAdd(base(L),
                         Scale(Apply(L.lora_B[adapter_name],
                                     Apply(L.lora_A[adapter_name], xd)),
                               L.scaling[adapter_name]))
                 r2 == IF adapter_name \in DOMAIN L.loranew_A
                       THEN MatAdd(r1,
                              Scale(Apply(L.loranew_B[adapter_name],
                                          Apply(L.loranew_A[adapter_name], xd)),
                                    L.scaling[adapter_name]))
                       ELSE r1
             IN  [layer |-> L, out |-> r2]
        ELSE [layer |-> L, out |-> base(L)]

----------------------------------------------------------------------------
(* Embedding(nn.Embedding, LoraLayer) *)

\* the object before Embedding.__init__ calls update_layer_embedding
Embedding_base(a, id, seed) ==
    LoraLayer_init(a.in_features, a.out_features) @@
    [kind |-> "LoraEmbedding", oid |-> id,
     weight |-> Param(id, Rand(a.in_features, a.out_features, seed), FALSE),
     bias |-> Nil,
     fan_in_fan_out |-> FALSE,
     active_adapter |-> <<>>]

\* Embedding.__init__
Embedding_init(a, id, seed) ==
    SetActive(update_layer_embedding(Embedding_base(a, id, seed), a.adapter_name,
                                     a.r, a.lora_alpha, a.lora_dropout,
                                     a.init_lora_weights, a.use_baseline_lora, seed),
              a.adapter_name)

\* Embedding._get_active_adapter_name
Embedding_get_active_adapter_name(L) ==
    IF S_baseline_lora \in DOMAIN L.lora_embedding_A
    THEN S_baseline_lora ELSE L.active_adapter

\* Embedding._merge_weights
Embedding_merge_weights(L, adapter_name) ==
    IF L.r[adapter_name] > 0
    THEN [L EXCEPT !.weight.data =
            MatAdd(@, Delta(L.lora_embedding_B[adapter_name],
                            L.lora_embedding_A[adapter_name],
                            TRUE, L.scaling[adapter_name]))]
    ELSE L

\* Embedding._unmerge_weights
Embedding_unmerge_weights(L, adapter_name) ==
    IF L.r[adapter_name] > 0
    THEN [L EXCEPT !.weight.data =
            MatSub(@, Delta(L.lora_embedding_B[adapter_name],
                            L.lora_embedding_A[adapter_name],
                            TRUE, L.scaling[adapter_name]))]
    ELSE L

\* a merge that adds the delta and leaves the merged flag as it was
embedding_merge_leaving_flag(L) ==
    LET adapter_name == Embedding_get_active_adapter_name(L)
    IN  IF adapter_name \notin DOMAIN L.lora_embedding_A THEN L
        ELSE IF L.merged THEN L
        ELSE Embedding_merge_weights(L, adapter_name)

\* Embedding.merge
Embedding_merge(L) ==
    LET adapter_name == Embedding_get_active_adapter_name(L)
    IN  IF adapter_name \notin DOMAIN L.lora_embedding_A THEN L
        ELSE IF L.merged THEN L
        ELSE [Embedding_merge_weights(L, adapter_name) EXCEPT !.merged = TRUE]

\* Embedding.unmerge
Embedding_unmerge(L) ==
    LET adapter_name == Embedding_get_active_adapter_name(L)
    IN  IF adapter_name \notin DOMAIN L.lora_embedding_A THEN L
        ELSE IF ~L.merged THEN L
        ELSE [Embedding_unmerge_weights(L, adapter_name) EXCEPT !.merged = FALSE]

\* Embedding.forward on one index x: the layer afterwards and the result
Embedding_forward(L, x) ==
    LET adapter_name == Embedding_get_active_adapter_name(L)
        base(M) == F_embedding(x, M.weight.data)
    IN  IF adapter_name \notin DOMAIN L.lora_embedding_A
        THEN [layer |-> L, out |-> base(L)]
        ELSE IF L.disable_adapters
        THEN LET L1 == IF L.r[adapter_name] > 0 /\ L.merged
                       THEN Embedding_unmerge(L) ELSE L
             IN  [layer |-> L1, out |-> base(L1)]
        ELSE IF L.r[adapter_name] > 0 /\ ~L.merged
        THEN LET after_A == F_embedding(x, T(L.lora_embedding_A[adapter_name].data))
             IN  [layer |-> L,
                  out |-> MatAdd(base(L),
                            Scale(MatMul(after_A,
                                         T(L.lora_embedding_B[adapter_name].data)),
                                  L.scaling[adapter_name]))]
        ELSE [layer |-> L, out |-> base(L)]

----------------------------------------------------------------------------
(* The module tree: torch.nn modules by dotted name *)

K_root == <<>>
K_e == S_e
K_h == S_h
K_hq == Join(S_h, S_q)
K_hv == Join(S_h, S_v)
K_n == S_n

\* the positions of the tree, in named_modules() (pre-order) order
TreeKeys == <<K_root, K_e, K_h, K_hq, K_hv, K_n>>

KeySet == {TreeKeys[i] : i \in DOMAIN TreeKeys}

\* the order in which the entries of a ModuleDict / ParameterDict are listed
NameOrder == <<S_a, S_b, S_c, S_baseline_lora>>

Names == {NameOrder[i] : i \in DOMAIN NameOrder}

IsLoraLayer(m) == m.kind \in {"LoraLinear", "LoraEmbedding"}

LoraKeys(t) == {k \in KeySet : IsLoraLayer(t[k])}

\* the ModuleDict and ParameterDict children of a LoraLayer, in the order
\* LoraLayer.__init__ registers them
DictNames == <<"lora_dropout", "lora_A", "lora_B", "loranew_A", "loranew_B",
               "lora_embedding_A", "lora_embedding_B">>

DictKey(d) ==
    CASE d = "lora_dropout" -> S_lora_dropout
      [] d = "lora_A" -> S_lora_A
      [] d = "lora_B" -> S_lora_B
      [] d = "loranew_A" -> S_loranew_A
      [] d = "loranew_B" -> S_loranew_B
      [] d = "lora_embedding_A" -> S_lora_embedding_A
      [] d = "lora_embedding_B" -> S_lora_embedding_B

DictOf(L, d) ==
    CASE d = "lora_dropout" -> L.lora_dropout
      [] d = "lora_A" -> L.lora_A
      [] d = "lora_B" -> L.lora_B
      [] d = "loranew_A" -> L.loranew_A
      [] d = "loranew_B" -> L.loranew_B
      [] d = "lora_embedding_A" -> L.lora_embedding_A
      [] d = "lora_embedding_B" -> L.lora_embedding_B

\* the dicts whose entries are modules (nn.ModuleDict)
ModuleDicts == {"lora_dropout", "lora_A", "lora_B", "loranew_A", "loranew_B"}

EntryNames(L, d) == SelectSeq(NameOrder, LAMBDA n : n \in DOMAIN DictOf(L, d))

RECURSIVE Flatten(_)
Flatten(ss) == IF ss = <<>> THEN <<>> ELSE Head(ss) \o Flatten(Tail(ss))

\* the named_modules() entries below the LoraLayer at position k
SubModules(k, L) ==
    Flatten([i \in DOMAIN DictNames |->
        LET d == DictNames[i]
            es == IF d \in ModuleDicts THEN EntryNames(L, d) ELSE <<>>
        IN  <<[key |-> Join(k, DictKey(d)), top |-> k, sub |-> <<d>>]>> \o
            [j \in DOMAIN es |->
               [key |-> Join(Join(k, DictKey(d)), es[j]), top |-> k,
                sub |-> <<d, es[j]>>]]])

\* model.named_modules(): every module with its dotted name
named_modules(t) ==
    Flatten([i \in DOMAIN TreeKeys |->
        LET k == TreeKeys[i]
        IN  <<[key |-> k, top |-> k, sub |-> <<>>]>> \o
            (IF IsLoraLayer(t[k]) THEN SubModules(k, t[k]) ELSE <<>>)])

\* utils._get_submodules(model, key): the module an entry of named_modules()
\* names
get_submodules(t, e) ==
    IF e.sub = <<>> THEN t[e.top]
    ELSE IF Len(e.sub) = 1
    THEN [kind |-> IF e.sub[1] \in ModuleDicts THEN "ModuleDict" ELSE "ParameterDict",
          oid |-> 0]
    ELSE IF e.sub[1] = "lora_dropout"
    THEN [kind |-> IF t[e.top].lora_dropout[e.sub[2]] > 0 THEN "Dropout" ELSE "Identity",
          oid |-> 0]
    ELSE LET w == DictOf(t[e.top], e.sub[1])[e.sub[2]]
         IN  [kind |-> "Linear", oid |-> 0, weight |-> w, bias |-> Nil,
              in_features |-> w.data.c, out_features |-> w.data.r]

\* hasattr(target, "bias")
HasBiasAttr(m) == m.kind \in {"Linear", "Conv1D", "LayerNorm", "LoraLinear"}

\* model.named_parameters() of the module at position k: <<name, where>>
ParamsOf(k, m) ==
    IF m.kind = "Container" THEN <<>>
    ELSE <<[name |-> Join(k, S_weight), at |-> <<"weight">>]>> \o
         (IF m.bias # Nil THEN <<[name |-> Join(k, S_bias), at |-> <<"bias">>]>>
          ELSE <<>>) \o
         (IF IsLoraLayer(m)
          THEN Flatten([i \in DOMAIN DictNames |->
                 LET d == DictNames[i]
                     es == IF d = "lora_dropout" THEN <<>> ELSE EntryNames(m, d)
                 IN  [j \in DOMAIN es |->
                        [name |-> IF d \in ModuleDicts
                                  THEN Join(Join(Join(k, DictKey(d)), es[j]), S_weight)
                                  ELSE Join(Join(k, DictKey(d)), es[j]),
                         at |-> <<d, es[j]>>]]])
          ELSE <<>>)

\* the module m with requires_grad of its parameter `at` set to rg
SetGrad(m, at, rg) ==
    CASE at = <<"weight">> -> [m EXCEPT !.weight.requires_grad = rg]
      [] at = <<"bias">> -> [m EXCEPT !.bias.requires_grad = rg]
      [] at[1] = "lora_A" -> [m EXCEPT !.lora_A[at[2]].requires_grad = rg]
      [] at[1] = "lora_B" -> [m EXCEPT !.lora_B[at[2]].requires_grad = rg]
      [] at[1] = "loranew_A" -> [m EXCEPT !.loranew_A[at[2]].requires_grad = rg]
      [] at[1] = "loranew_B" -> [m EXCEPT !.loranew_B[at[2]].requires_grad = rg]
      [] at[1] = "lora_embedding_A" ->
            [m EXCEPT !.lora_embedding_A[at[2]].requires_grad = rg]
      [] at[1] = "lora_embedding_B" ->
            [m EXCEPT !.lora_embedding_B[at[2]].requires_grad = rg]

RECURSIVE SetGrads(_, _, _)
\* m with requires_grad = rg on each parameter listed in ps
SetGrads(m, ps, rg) ==
    IF ps = <<>> THEN m
    ELSE SetGrads(SetGrad(m, Head(ps).at, rg), Tail(ps), rg)

\* a marking that sets the biases the policy names without freezing first
mark_without_freezing(t, bias) ==
    CASE bias = "none" -> [err |-> None, tree |-> t]
      [] bias = "all" ->
            [err |-> None,
             tree |-> [k \in KeySet |->
                         SetGrads(t[k],
                                  SelectSeq(ParamsOf(k, t[k]),
                                            LAMBDA p : Contains(p.name, S_bias)),
                                  TRUE)]]
      [] bias = "lora_only" ->
            [err |-> None,
             tree |-> [k \in KeySet |->
                         IF IsLoraLayer(t[k]) /\ t[k].bias # Nil
                         THEN SetGrad(t[k], <<"bias">>, TRUE)
                         ELSE t[k]]]
      [] OTHER -> [err |-> "NotImplementedError", tree |-> t]

\* mark_only_lora_as_trainable(model, bias)
mark_only_lora_as_trainable(t, bias) ==
    LET t1 == [k \in KeySet |->
                 SetGrads(t[k],
                          SelectSeq(ParamsOf(k, t[k]),
                                    LAMBDA p : ~Contains(p.name, S_lora_)),
                          FALSE)]
    IN  CASE bias = "none" -> [err |-> None, tree |-> t1]
          [] bias = "all" ->
                [err |-> None,
                 tree |-> [k \in KeySet |->
                             SetGrads(t1[k],
                                      SelectSeq(ParamsOf(k, t1[k]),
                                                LAMBDA p : Contains(p.name, S_bias)),
                                      TRUE)]]
          [] bias = "lora_only" ->
                [err |-> None,
                 tree |-> [k \in KeySet |->
                             IF IsLoraLayer(t1[k]) /\ t1[k].bias # Nil
                             THEN SetGrad(t1[k], <<"bias">>, TRUE)
                             ELSE t1[k]]]
          [] OTHER -> [err |-> "NotImplementedError", tree |-> t1]

\* utils._freeze_adapter(model, adapter_name)
freeze_adapter(t, adapter_name) ==
    [k \in KeySet |->
       SetGrads(t[k],
                SelectSeq(ParamsOf(k, t[k]),
                          LAMBDA p : Contains(p.name, adapter_name)),
                FALSE)]

----------------------------------------------------------------------------
(* LoraConfig and the adapter registry *)

\* LoraConfig(...): the fields the engine reads
LoraConfig(target_modules, r, lora_alpha, bias, r_sum) ==
    [r |-> r, target_modules |-> target_modules, lora_alpha |-> lora_alpha,
     lora_dropout |-> 0, fan_in_fan_out |-> FALSE, bias |-> bias,
     init_lora_weights |-> TRUE, r_sum |-> r_sum,
     inference_mode |-> FALSE, merge_weights |-> FALSE]

\* target_modules given as a list of suffixes
TargetList(items) == [mode |-> "list", items |-> items]

\* target_modules given as one regular expression: a sequence of tokens, each
\* ".*", "." or a literal character
TargetStr(pat) == [mode |-> "str", pat |-> pat]

RECURSIVE FullMatch(_, _)
\* re.fullmatch(pat, s) is not None
FullMatch(pat, s) ==
    IF pat = <<>> THEN s = <<>>
    ELSE IF Head(pat) = ".*"
    THEN FullMatch(Tail(pat), s) \/ (s # <<>> /\ FullMatch(pat, Tail(s)))
    ELSE IF Head(pat) = "."
    THEN s # <<>> /\ FullMatch(Tail(pat), Tail(s))
    ELSE s # <<>> /\ Head(s) = Head(pat) /\ FullMatch(Tail(pat), Tail(s))

\* target_module_found for one module name
TargetModuleFound(target_modules, key) ==
    IF target_modules.mode = "str"
    THEN FullMatch(target_modules.pat, key)
    ELSE \E i \in DOMAIN target_modules.items : EndsWith(key, target_modules.items[i])

\* model.config["model_type"] of the base model
ModelType(t) == t[K_root].model_type

\* TRANSFORMERS_MODELS_TO_LORA_TARGET_MODULES_MAPPING (utils): the default
\* targets of the model families it knows
DefaultTargets == [t5 |-> TargetList(<<S_q, S_v>>)]

\* LoraModel._prepare_lora_config: the config object afterwards
prepare_lora_config(peft_config_obj, model_type) ==
    LET c1 == IF peft_config_obj.target_modules = Nil
              THEN [peft_config_obj EXCEPT !.target_modules = DefaultTargets[model_type]]
              ELSE peft_config_obj
        c2 == IF c1.inference_mode THEN [c1 EXCEPT !.merge_weights = TRUE] ELSE c1
    IN  IF peft_config_obj.target_modules = Nil /\ model_type \notin DOMAIN DefaultTargets
        THEN [err |-> "UnresolvedTargets", config |-> peft_config_obj]
        ELSE [err |-> None, config |-> c2]

\* adapter_name in self.peft_config
Registered(pcfg) == {pcfg[i].name : i \in DOMAIN pcfg}

\* the index of adapter_name in the ordered dict
IndexOf(pcfg, adapter_name) == CHOOSE i \in DOMAIN pcfg : pcfg[i].name = adapter_name

\* the identity of self.peft_config[adapter_name]
CfgId(pcfg, adapter_name) == pcfg[IndexOf(pcfg, adapter_name)].cfg

\* self.peft_config[adapter_name] = <the config object cid>
SetItem(pcfg, adapter_name, cid) ==
    IF adapter_name \in Registered(pcfg)
    THEN [pcfg EXCEPT ![IndexOf(pcfg, adapter_name)].cfg = cid]
    ELSE Append(pcfg, [name |-> adapter_name, cfg |-> cid])

----------------------------------------------------------------------------
(* LoraModel: injection *)

\* the identity given to the i-th object created during one call
FreshId(i) == Len(TreeKeys) + i

\* the arguments _create_new_module passes to the constructor of the new layer
NewModuleArgs(adapter_name, kwargs, bias, in_f, out_f, fifo) ==
    [adapter_name |-> adapter_name, in_features |-> in_f,
     out_features |-> out_f, r |-> kwargs.r, lora_alpha |-> kwargs.lora_alpha,
     lora_dropout |-> kwargs.lora_dropout, fan_in_fan_out |-> fifo,
     r_sum |-> 0, use_baseline_lora |-> FALSE, bias |-> bias,
     init_lora_weights |-> kwargs.init_lora_weights]

\* what _create_new_module returns when the constructor ended as n
NewModule(n, kwargs) == [err |-> n.err, module |-> n.layer, kwargs |-> kwargs]

\* LoraModel._create_new_module: the new module and kwargs afterwards
create_new_module(target, adapter_name, kwargs, bias, id, seed) ==
    CASE target.kind = "Embedding" ->
           NewModule(Embedding_init(NewModuleArgs(adapter_name, kwargs, bias,
                                                  target.in_features,
                                                  target.out_features, FALSE),
                                    id, seed),
                     kwargs)
      [] target.kind \in {"Linear", "Conv1D"} ->
           NewModule(Linear_init(IF target.kind = "Linear"
                                 THEN NewModuleArgs(adapter_name, kwargs, bias,
                                                    target.in_features,
                                                    target.out_features, FALSE)
                                 ELSE NewModuleArgs(adapter_name, kwargs, bias,
                                                    target.weight.data.r,
                                                    target.weight.data.c, TRUE),
                                 id, seed),
                     [kwargs EXCEPT !.fan_in_fan_out = (target.kind = "Conv1D")])
      [] OTHER -> [err |-> "UnsupportedLayerKind", module |-> Nil, kwargs |-> kwargs]

\* self._replace_module(parent, target_name, new_module, target): LoraModel
\* defines no _replace_module and nn.Module.__getattr__ finds none, so the
\* attribute lookup raises before anything is spliced in
replace_module(t, e, new_module, old_module) ==
    [err |-> "AttributeError", tree |-> t]

\* target.update_layer(adapter_name, r, lora_alpha, lora_dropout,
\* init_lora_weights) as _find_and_replace calls it: the required positional
\* argument r_sum is not passed, so the call raises before the body runs
call_update_layer(target, adapter_name, lora_config, seed) ==
    Raise("TypeError", target)

RECURSIVE FindLoop(_, _, _, _, _, _)

\* the loop body after self._replace_module(...) ended as rp
FindReplaced(key_list, i, st, c, rp, lora_config, adapter_name, seed) ==
    IF rp.err # None THEN [st EXCEPT !.err = rp.err, !.kwargs = c.kwargs]
    ELSE FindLoop(key_list, i + 1, [st EXCEPT !.tree = rp.tree, !.kwargs = c.kwargs],
                  lora_config, adapter_name, seed)

\* the loop body after self._create_new_module(...) ended as c
FindCreated(key_list, i, st, e, target, c, lora_config, adapter_name, seed) ==
    IF c.err # None THEN [st EXCEPT !.err = c.err, !.kwargs = c.kwargs]
    ELSE FindReplaced(key_list, i, [st EXCEPT !.built = Append(@, c.module)], c,
                      replace_module(st.tree, e, c.module, target),
                      lora_config, adapter_name, seed)

\* the loop body after target.update_layer(...) ended as u
FindUpdated(key_list, i, st, e, u, lora_config, adapter_name, seed) ==
    IF u.err # None THEN [st EXCEPT !.err = u.err, !.tree[e.top] = u.layer]
    ELSE FindLoop(key_list, i + 1, [st EXCEPT !.tree[e.top] = u.layer],
                  lora_config, adapter_name, seed)

\* the loop body from isinstance(target, LoraLayer) on; reading the local
\* bias while it is unbound raises
FindMatched(key_list, i, st, e, target, lora_config, adapter_name, seed) ==
    IF IsLoraLayer(target)
    THEN FindUpdated(key_list, i, st, e,
                     call_update_layer(target, adapter_name, lora_config, seed),
                     lora_config, adapter_name, seed)
    ELSE IF st.bias = <<>> THEN [st EXCEPT !.err = "UnboundLocalError"]
    ELSE FindCreated(key_list, i, st, e, target,
                     create_new_module(target, adapter_name, st.kwargs, st.bias[1],
                                       FreshId(i), seed),
                     lora_config, adapter_name, seed)

\* the loop body for a key that matches: is_target_modules_in_base_model is
\* set, and bias when the target has the attribute
FindTarget(key_list, i, st, e, target, lora_config, adapter_name, seed) ==
    FindMatched(key_list, i,
                [st EXCEPT !.found = TRUE,
                           !.bias = IF HasBiasAttr(target) THEN <<target.bias # Nil>> ELSE @],
                e, target, lora_config, adapter_name, seed)

\* the loop of _find_and_replace over key_list from index i; st holds the
\* tree, the locals bias (<<>> while unbound), kwargs and
\* is_target_modules_in_base_model, and the modules _create_new_module
\* returned so far
FindLoop(key_list, i, st, lora_config, adapter_name, seed) ==
    IF i > Len(key_list) THEN st
    ELSE IF ~TargetModuleFound(lora_config.target_modules, key_list[i].key)
    THEN FindLoop(key_list, i + 1, st, lora_config, adapter_name, seed)
    ELSE FindTarget(key_list, i, st, key_list[i], get_submodules(st.tree, key_list[i]),
                    lora_config, adapter_name, seed)

\* an end of _find_and_replace that does not look at
\* is_target_modules_in_base_model
FindResultUnchecked(st) == [err |-> st.err, tree |-> st.tree]

\* the end of _find_and_replace once the loop ended as st
FindResult(st) ==
    IF st.err # None THEN [err |-> st.err, tree |-> st.tree]
    ELSE IF ~st.found THEN [err |-> "NoTargetsMatched", tree |-> st.tree]
    ELSE [err |-> None, tree |-> st.tree]

\* the locals of _find_and_replace before its loop: kwargs takes r,
\* lora_alpha, lora_dropout, fan_in_fan_out and init_lora_weights from the
\* config, and nothing else
FindLocals(t, lora_config) ==
    [tree |-> t, bias |-> <<>>,
     kwargs |-> [r |-> lora_config.r,
                 lora_alpha |-> lora_config.lora_alpha,
                 lora_dropout |-> lora_config.lora_dropout,
                 fan_in_fan_out |-> lora_config.fan_in_fan_out,
                 init_lora_weights |-> lora_config.init_lora_weights],
     found |-> FALSE, err |-> None, built |-> <<>>]

\* LoraModel._find_and_replace(adapter_name) for a registered adapter
find_and_replace(t, lora_config, adapter_name, seed) ==
    FindResult(FindLoop(named_modules(t), 1, FindLocals(t, lora_config),
                        lora_config, adapter_name, seed))

----------------------------------------------------------------------------
(* LoraModel: the engine's operations, as functions of the engine state *)

\* the engine state an operation works on
Engine(t, pcfg, cfgs) == [tree |-> t, peft_config |-> pcfg, configs |-> cfgs]

Returns(E) == [err |-> None, engine |-> E]
Raises(e, E) == [err |-> e, engine |-> E]

\* self.peft_config[adapter_name]
ConfigOf(E, adapter_name) == E.configs[CfgId(E.peft_config, adapter_name)]

\* the end of add_adapter once mark_only_lora_as_trainable ended as m
AddMarked(E, adapter_name, config, m) ==
    IF m.err # None THEN Raises(m.err, [E EXCEPT !.tree = m.tree])
    ELSE IF config.inference_mode
    THEN Returns([E EXCEPT !.tree = freeze_adapter(m.tree, adapter_name)])
    ELSE Returns([E EXCEPT !.tree = m.tree])

\* add_adapter once _find_and_replace ended with error f_err on the engine E
AddFound(E, adapter_name, config, f_err) ==
    IF f_err # None THEN Raises(f_err, E)
    ELSE IF Len(E.peft_config) > 1 /\ config.bias # "none"
    THEN Raises("BiasConflict", E)
    ELSE AddMarked(E, adapter_name, config,
                   mark_only_lora_as_trainable(E.tree, config.bias))

\* add_adapter from self.peft_config[adapter_name] = config on, E holding the
\* new entry, until _find_and_replace ended as f
AddRegistered(E, adapter_name, config, f) ==
    AddFound([E EXCEPT !.tree = f.tree], adapter_name, config, f.err)

\* add_adapter once _prepare_lora_config ended as p
AddPrepared(E, adapter_name, p, seed) ==
    IF p.err # None THEN Raises(p.err, E)
    ELSE AddRegistered([E EXCEPT !.configs = Append(@, p.config),
                                 !.peft_config = SetItem(@, adapter_name,
                                                         Len(E.configs) + 1)],
                       adapter_name, p.config,
                       find_and_replace(E.tree, p.config, adapter_name, seed))

\* an add_adapter without the test for an existing name
add_adapter_again(E, adapter_name, config, seed) ==
    IF config = Nil THEN Raises("MissingConfig", E)
    ELSE AddPrepared(E, adapter_name,
                     prepare_lora_config(config, ModelType(E.tree)), seed)

\* LoraModel.add_adapter(adapter_name, config); config is Nil or a new
\* LoraConfig object
add_adapter(E, adapter_name, config, seed) ==
    IF adapter_name \in Registered(E.peft_config) THEN Returns(E)
    ELSE IF config = Nil THEN Raises("MissingConfig", E)
    ELSE AddPrepared(E, adapter_name,
                     prepare_lora_config(config, ModelType(E.tree)), seed)

\* module.merge(adapter) as merge_adapter calls it, and module.unmerge(adapter)
\* as unmerge_adapter does: merge() and unmerge() take no argument besides
\* self, so the call raises before the body runs
call_merge(L, adapter) == Raise("TypeError", L)

call_unmerge(L, adapter) == Raise("TypeError", L)

RECURSIVE MergeNames(_, _, _)
\* for adapter in adapter_names: module.merge(adapter)
MergeNames(L, adapter_names, i) ==
    IF i > Len(adapter_names) THEN Ok(L)
    ELSE LET u == call_merge(L, adapter_names[i])
         IN  IF u.err # None THEN u ELSE MergeNames(u.layer, adapter_names, i + 1)

RECURSIVE UnmergeNames(_, _, _)
\* for adapter in adapter_names: module.unmerge(adapter)
UnmergeNames(L, adapter_names, i) ==
    IF i > Len(adapter_names) THEN Ok(L)
    ELSE LET u == call_unmerge(L, adapter_names[i])
         IN  IF u.err # None THEN u ELSE UnmergeNames(u.layer, adapter_names, i + 1)

\* list(self.peft_config.keys()), or [adapter_name] when one is given
AdapterNames(E, adapter_name) ==
    IF adapter_name # <<>> THEN <<adapter_name>>
    ELSE [i \in DOMAIN E.peft_config |-> E.peft_config[i].name]

RECURSIVE MergeModules(_, _, _, _)

\* the loop over the modules after the inner loop on module i ended as u
MergedModule(E, adapter_names, i, unmerging, u) ==
    IF u.err # None THEN Raises(u.err, [E EXCEPT !.tree[TreeKeys[i]] = u.layer])
    ELSE MergeModules([E EXCEPT !.tree[TreeKeys[i]] = u.layer], adapter_names,
                      i + 1, unmerging)

\* for module in self.model.modules(): the LoraLayers among them from index i
MergeModules(E, adapter_names, i, unmerging) ==
    IF i > Len(TreeKeys) THEN Returns(E)
    ELSE IF ~IsLoraLayer(E.tree[TreeKeys[i]])
    THEN MergeModules(E, adapter_names, i + 1, unmerging)
    ELSE MergedModule(E, adapter_names, i, unmerging,
                      IF unmerging
                      THEN UnmergeNames(E.tree[TreeKeys[i]], adapter_names, 1)
                      ELSE MergeNames(E.tree[TreeKeys[i]], adapter_names, 1))

\* LoraModel.merge_adapter(adapter_name); <<>> when the name is omitted
merge_adapter(E, adapter_name) ==
    MergeModules(E, AdapterNames(E, adapter_name), 1, FALSE)

\* LoraModel.unmerge_adapter(adapter_name)
unmerge_adapter(E, adapter_name) ==
    MergeModules(E, AdapterNames(E, adapter_name), 1, TRUE)

\* X * (num / den), for a product that is integral
ScaleBy(X, num, den) ==
    [r |-> X.r, c |-> X.c,
     v |-> [i \in 1..X.r |-> [j \in 1..X.c |-> (X.v[i][j] * num) \div den]]]

RECURSIVE Accumulate(_, _, _, _, _, _)
\* for adapter, weight in zip(adapters, weights): the += of one factor, where
\* scaled says whether target.scaling[adapter] multiplies the term
Accumulate(acc, dict, L, adapters, weights, scaled) ==
    IF adapters = <<>> \/ weights = <<>> THEN acc
    ELSE LET adapter == Head(adapters)
             term == IF scaled
                     THEN ScaleBy(dict[adapter].data,
                                  Head(weights) * L.scaling[adapter], Den)
                     ELSE Scale(dict[adapter].data, Head(weights))
         IN  Accumulate(IF adapter \in DOMAIN dict THEN MatAdd(acc, term) ELSE acc,
                        dict, L, Tail(adapters), Tail(weights), scaled)

\* the body of add_weighted_adapter's loop for one LoraLayer
CombineInto(L, adapters, weights, adapter_name) ==
    IF adapter_name \in DOMAIN L.lora_A
    THEN [L EXCEPT
            !.lora_A[adapter_name].data =
                Accumulate(Zeros(@.r, @.c), L.lora_A, L, adapters, weights, TRUE),
            !.lora_B[adapter_name].data =
                Accumulate(Zeros(@.r, @.c), L.lora_B, L, adapters, weights, FALSE)]
    ELSE IF adapter_name \in DOMAIN L.lora_embedding_A
    THEN [L EXCEPT
            !.lora_embedding_A[adapter_name].data =
                Accumulate(Zeros(@.r, @.c), L.lora_embedding_A, L, adapters, weights, TRUE),
            !.lora_embedding_B[adapter_name].data =
                Accumulate(Zeros(@.r, @.c), L.lora_embedding_B, L, adapters, weights, FALSE)]
    ELSE L

\* the loop of add_weighted_adapter over the modules whose name lacks "lora"
CombineAll(t, adapters, weights, adapter_name) ==
    [k \in KeySet |->
       IF ~Contains(k, S_lora) /\ IsLoraLayer(t[k])
       THEN CombineInto(t[k], adapters, weights, adapter_name)
       ELSE t[k]]

\* the end of add_weighted_adapter once mark_only_lora_as_trainable ended as m
WeightedMarked(E, adapters, weights, adapter_name, m) ==
    IF m.err # None THEN Raises(m.err, [E EXCEPT !.tree = m.tree])
    ELSE Returns([E EXCEPT !.tree = CombineAll(freeze_adapter(m.tree, adapter_name),
                                               adapters, weights, adapter_name)])

\* add_weighted_adapter once _find_and_replace ended as f
WeightedFound(E, adapters, weights, adapter_name, f) ==
    IF f.err # None THEN Raises(f.err, [E EXCEPT !.tree = f.tree])
    ELSE WeightedMarked([E EXCEPT !.tree = f.tree], adapters, weights, adapter_name,
                        mark_only_lora_as_trainable(f.tree,
                                                    ConfigOf(E, adapter_name).bias))

\* add_weighted_adapter once the new name shares the first source's config
\* object and lora_alpha was set to r on it
WeightedRegistered(E, adapters, weights, adapter_name, seed) ==
    WeightedFound(E, adapters, weights, adapter_name,
                  find_and_replace(E.tree, ConfigOf(E, adapter_name), adapter_name, seed))

\* self.peft_config[adapter_name] = self.peft_config[adapters[0]] and
\* self.peft_config[adapter_name].lora_alpha = self.peft_config[adapters[0]].r
ShareConfig(E, source, adapter_name) ==
    [E EXCEPT !.peft_config = SetItem(@, adapter_name, CfgId(E.peft_config, source)),
              !.configs[CfgId(E.peft_config, source)].lora_alpha =
                  ConfigOf(E, source).r]

\* an add_weighted_adapter that shares the config object with the new name
\* before it compares the ranks
add_weighted_adapter_sharing_first(E, adapters, weights, adapter_name, seed) ==
    IF \E i \in DOMAIN adapters : adapters[i] \notin Registered(E.peft_config)
    THEN Raises("KeyError", E)
    ELSE IF Cardinality({ConfigOf(E, adapters[i]).r : i \in DOMAIN adapters}) # 1
    THEN Raises("RankMismatch", ShareConfig(E, adapters[1], adapter_name))
    ELSE WeightedRegistered(ShareConfig(E, adapters[1], adapter_name),
                            adapters, weights, adapter_name, seed)

\* LoraModel.add_weighted_adapter(adapters, weights, adapter_name)
add_weighted_adapter(E, adapters, weights, adapter_name, seed) ==
    IF \E i \in DOMAIN adapters : adapters[i] \notin Registered(E.peft_config)
    THEN Raises("KeyError", E)
    ELSE IF Cardinality({ConfigOf(E, adapters[i]).r : i \in DOMAIN adapters}) # 1
    THEN Raises("RankMismatch", E)
    ELSE WeightedRegistered(ShareConfig(E, adapters[1], adapter_name),
                            adapters, weights, adapter_name, seed)

\* LoraModel.__init__(model, config, adapter_name): config is the registry
\* the engine starts from
LoraModel_init(E, adapter_name0, seed) ==
    LET adapter_name == IF adapter_name0 # <<>> THEN adapter_name0 ELSE S_baseline_lora
    IN  IF adapter_name \notin Registered(E.peft_config)
        THEN add_adapter(E, adapter_name, Nil, seed)
        ELSE Returns(E)

\* the per-layer operations, by the class of the layer
merge(L) == IF L.kind = "LoraLinear" THEN Linear_merge(L) ELSE Embedding_merge(L)

unmerge(L) == IF L.kind = "LoraLinear" THEN Linear_unmerge(L) ELSE Embedding_unmerge(L)

get_active_adapter_name(L) ==
    IF L.kind = "LoraLinear" THEN Linear_get_active_adapter_name(L)
    ELSE Embedding_get_active_adapter_name(L)

\* the factor pair of the adapter: lora_A for a dense layer, lora_embedding_A
\* for an embedding
HasFactors(L, adapter_name) ==
    IF L.kind = "LoraLinear" THEN adapter_name \in DOMAIN L.lora_A
    ELSE adapter_name \in DOMAIN L.lora_embedding_A

----------------------------------------------------------------------------
(* The base model and the inputs *)

Seeds == 1..MaxSeed
Ranks == 1..MaxRank
Alphas == 1..MaxAlpha

BOOL == {TRUE, FALSE}

\* a plain torch.nn module with a weight of the given shape
Plain(kind, id, in_f, out_f, rows, cols, has_bias) ==
    [kind |-> kind, oid |-> id, in_features |-> in_f, out_features |-> out_f,
     weight |-> Param(id, Rand(rows, cols, id), TRUE),
     bias |-> IF has_bias THEN Param(id, Rand(1, out_f, id), TRUE) ELSE Nil]

\* the arguments of a LoRA layer's constructor at tree position k
CtorArgs(k, a) ==
    [adapter_name |-> a.adapter_name, in_features |-> 2, out_features |-> 1,
     r |-> a.r, lora_alpha |-> a.lora_alpha, lora_dropout |-> a.lora_dropout,
     fan_in_fan_out |-> (k = K_hv), r_sum |-> a.r_sum,
     use_baseline_lora |-> a.use_baseline_lora, bias |-> (k = K_hv),
     init_lora_weights |-> a.init_lora_weights]

\* the position of key k in TreeKeys: the identity of the object placed there
Pos(k) == CHOOSE i \in DOMAIN TreeKeys : TreeKeys[i] = k

\* a base model: an embedding e, a block h holding a Linear q (no bias) and a
\* Conv1D v, and a LayerNorm n; the positions in lora hold LoRA layers built
\* directly with the arguments a instead
BuildModel(lora, a, seed, model_type) ==
    [k \in KeySet |->
       IF k \in lora
       THEN IF k = K_e THEN Embedding_init(CtorArgs(k, a), Pos(k), seed).layer
            ELSE Linear_init(CtorArgs(k, a), Pos(k), seed).layer
       ELSE CASE k = K_root -> [kind |-> "Container", oid |-> Pos(k), bias |-> Nil,
                                model_type |-> model_type]
              [] k = K_h -> [kind |-> "Container", oid |-> Pos(k), bias |-> Nil]
              [] k = K_e -> Plain("Embedding", Pos(k), 2, 1, 2, 1, FALSE)
              [] k = K_hq -> Plain("Linear", Pos(k), 2, 1, 1, 2, FALSE)
              [] k = K_hv -> Plain("Conv1D", Pos(k), 2, 1, 2, 1, TRUE)
              [] k = K_n -> Plain("LayerNorm", Pos(k), 2, 2, 1, 2, TRUE)]

\* the positions that can hold a LoRA layer
LoraPositions == {K_e, K_hq, K_hv}

\* the base model families
ModelTypes == {"t5", "other"}

\* the constructor arguments the layers of LayerSpec are built with
LayerArgs ==
    [adapter_name : {S_a, S_baseline_lora}, r : Ranks, lora_alpha : Alphas,
     lora_dropout : {0, 50}, r_sum : 0..MaxRank, init_lora_weights : BOOL,
     use_baseline_lora : {FALSE}]

\* the constructor arguments of the LoRA layers a base model of Spec may
\* already hold
EngineLayerArgs ==
    [adapter_name : {S_a}, r : {MaxRank}, lora_alpha : {MaxAlpha},
     lora_dropout : {0}, r_sum : {1}, init_lora_weights : {FALSE},
     use_baseline_lora : {FALSE}]

\* the constructor arguments of the layers of OpsSpec: rank 0 included
OpsArgs ==
    [adapter_name : {S_a}, r : 0..MaxRank, lora_alpha : {MaxAlpha},
     lora_dropout : {0}, r_sum : {1}, init_lora_weights : {FALSE},
     use_baseline_lora : BOOL]

\* the arguments of the update_layer and update_layer_embedding calls made on
\* a constructed layer
UpdateArgs ==
    [adapter_name : {S_b, S_baseline_lora}, r : 0..MaxRank, lora_alpha : {1},
     lora_dropout : {0}, r_sum : {1}, init_lora_weights : {FALSE},
     use_baseline_lora : BOOL]

\* the bias policies mark_only_lora_as_trainable accepts
Policies == {"none", "all", "lora_only"}

\* target_modules values: None, suffix lists and regular expressions
Targets ==
    {Nil, TargetList(<<S_q, S_v>>), TargetList(<<S_x>>), TargetList(<<S_e>>),
     TargetList(<<S_n>>), TargetStr(<<".*", "q">>), TargetStr(<<"x">>)}

BiasPolicies == {"none", "all"}

\* the LoraConfig objects callers pass: every target at rank 1 without bias,
\* and the suffix list at every rank and bias policy
ConfigSet ==
    {LoraConfig(t, 1, MaxAlpha, "none", 1) : t \in Targets} \cup
    {LoraConfig(TargetList(<<S_q, S_v>>), r, MaxAlpha, b, r) :
        r \in Ranks, b \in BiasPolicies}

\* the adapter names callers register
AdapterNameSet == {S_a, S_b}

\* the inputs of a dense layer (1 x in_features) and of an embedding (an index)
Inputs(L) ==
    IF L.kind = "LoraLinear"
    THEN {[r |-> 1, c |-> L.in_features, v |-> [i \in 1..1 |-> m]] :
            m \in [1..L.in_features -> {0, 1}]}
    ELSE 1..L.in_features

Call(op, name, arg, err) == [op |-> op, name |-> name, arg |-> arg, err |-> err]

\* the base weight of every module of t that has one
BaseWeights(t) ==
    [k \in KeySet |-> IF t[k].kind = "Container" THEN Nil ELSE t[k].weight.data]

\* the history of a model just built
History(t) == [w0 |-> BaseWeights(t), updates |-> 0, clean |-> TRUE]

\* one optimizer step on the adapter's trainable factor tensors: each tensor
\* with requires_grad set takes new values
train(L, adapter_name, seed) ==
    LET step(d) == [n \in DOMAIN d |->
                      IF n = adapter_name /\ d[n].requires_grad
                      THEN [d[n] EXCEPT !.data = Rand(@.r, @.c, seed)]
                      ELSE d[n]]
    IN  [L EXCEPT !.lora_A = step(@), !.lora_B = step(@),
                  !.loranew_A = step(@), !.loranew_B = step(@),
                  !.lora_embedding_A = step(@), !.lora_embedding_B = step(@)]

\* the plain base-layer computation of the layer on input x
BaseForward(L, x) ==
    IF L.kind = "LoraLinear"
    THEN F_linear(x, transpose(L.weight.data, L.fan_in_fan_out), L.bias)
    ELSE F_embedding(x, L.weight.data)

\* the dropout masks forward can draw for the resolved adapter
ForwardMasks(L) ==
    LET n == get_active_adapter_name(L)
    IN  IF L.kind = "LoraLinear" /\ n \in DOMAIN L.lora_dropout /\ L.lora_dropout[n] > 0
        THEN Masks(L.in_features)
        ELSE {Zeros(1, L.in_features)}

forward(L, x, mask) ==
    IF L.kind = "LoraLinear" THEN Linear_forward(L, x, mask) ELSE Embedding_forward(L, x)

----------------------------------------------------------------------------
(* LoraModel.merge_and_unload *)

\* getattr(self.config, "model_type", None): LoraModel.__init__ sets no
\* attribute config and nn.Module.__getattr__ finds none, so the default is
\* what getattr returns
SelfConfigModelType(E) == None

\* torch.nn.Linear(target.in_features, target.out_features, bias=bias)
NewLinear(target, id) ==
    Plain("Linear", id, target.in_features, target.out_features,
          target.out_features, target.in_features, target.bias # Nil)

RECURSIVE UnloadLoop(_, _, _)

\* the loop body after self._replace_module(...) ended as rp
UnloadReplaced(E, key_list, i, rp) ==
    IF rp.err # None THEN Raises(rp.err, [E EXCEPT !.tree = rp.tree])
    ELSE UnloadLoop([E EXCEPT !.tree = rp.tree], key_list, i + 1)

\* the loop body for a LoraLayer whose bias was read: target.merge() leaves
\* the layer as M, then self._replace_module(...) is called
UnloadMerged(E, key_list, i, e, M) ==
    UnloadReplaced(E, key_list, i,
                   replace_module([E.tree EXCEPT ![e.top] = M], e,
                                  NewLinear(M, FreshId(i)), M))

\* the loop of merge_and_unload over key_list from index i; reading
\* target.bias of a layer that has no such attribute raises
UnloadLoop(E, key_list, i) ==
    IF i > Len(key_list) THEN Returns(E)
    ELSE IF ~IsLoraLayer(get_submodules(E.tree, key_list[i]))
    THEN UnloadLoop(E, key_list, i + 1)
    ELSE IF ~HasBiasAttr(E.tree[key_list[i].top]) THEN Raises("AttributeError", E)
    ELSE UnloadMerged(E, key_list, i, key_list[i], merge(E.tree[key_list[i].top]))

\* LoraModel.merge_and_unload(); the base model is not quantized and the
\* tree holds no ModulesToSaveWrapper
merge_and_unload(E) ==
    IF SelfConfigModelType(E) = "gpt2" THEN Raises("UnsupportedMerge", E)
    ELSE UnloadLoop(E, SelectSeq(named_modules(E.tree),
                                 LAMBDA e : ~Contains(e.key, S_lora)), 1)

----------------------------------------------------------------------------
(* Actions on one layer *)

\* layer.merge()
LayerMerge(k) ==
    /\ k \in LoraKeys(tree)
    /\ LET L == tree[k]
           n == get_active_adapter_name(L)
           M == merge(L)
       IN  /\ tree' = [tree EXCEPT ![k] = M]
           /\ call' = Call("merge", k,
                           [unmerged_rank_positive |->
                                ~L.merged /\ n \in DOMAIN L.r /\ L.r[n] > 0,
                            w0 |-> L.weight.data,
                            changed |-> M.weight.data # L.weight.data],
                           None)
    /\ UNCHANGED <<peft_config, configs, pc, hist>>

\* layer.unmerge(); the call records whether it directly follows a merge() of
\* the same layer, and what that merge() recorded
LayerUnmerge(k) ==
    /\ k \in LoraKeys(tree)
    /\ LET follows == call.op = "merge" /\ call.name = k
       IN  /\ tree' = [tree EXCEPT ![k] = unmerge(tree[k])]
           /\ call' = Call("unmerge", k,
                           [follows_merge |-> follows,
                            before_merge |-> IF follows THEN call.arg ELSE Nil],
                           None)
    /\ UNCHANGED <<peft_config, configs, pc, hist>>

\* layer.forward(x) / layer(x); fresh says that the layer is as its
\* constructor left it, built with init_lora_weights = True
LayerForward(k) ==
    /\ k \in LoraKeys(tree)
    /\ \E x \in Inputs(tree[k]) : \E mask \in ForwardMasks(tree[k]) :
         LET f == forward(tree[k], x, mask)
         IN  /\ tree' = [tree EXCEPT ![k] = f.layer]
             /\ call' = Call("forward", k,
                             [x |-> x, out |-> f.out,
                              fresh |-> call.op = "init" /\ call.arg.init_lora_weights],
                             None)
    /\ UNCHANGED <<peft_config, configs, pc, hist>>

\* an optimizer step on one adapter of the layer; the forward of a merged
\* layer does not use the factor tensors, so they get no gradient and a step
\* changes them on an unmerged layer only
LayerTrain(k) ==
    /\ k \in LoraKeys(tree)
    /\ ~tree[k].merged
    /\ \E n \in DOMAIN tree[k].r : \E seed \in Seeds :
         /\ tree' = [tree EXCEPT ![k] = train(tree[k], n, seed)]
         /\ call' = Call("train", k, [adapter |-> n], None)
    /\ UNCHANGED <<peft_config, configs, pc, hist>>

\* layer = Linear(...) or Embedding(...), placed at position k
NewLayer(k) ==
    /\ pc = "new"
    /\ k \in {K_e, K_hv}
    /\ \E a \in OpsArgs : \E seed \in {MaxSeed} :
         LET n == IF k = K_e THEN Embedding_init(CtorArgs(k, a), Pos(k), seed)
                  ELSE Linear_init(CtorArgs(k, a), Pos(k), seed)
         IN  /\ tree' = IF n.err = None THEN [tree EXCEPT ![k] = n.layer] ELSE tree
             /\ hist' = IF n.err = None
                        THEN [hist EXCEPT !.w0[k] = n.layer.weight.data] ELSE hist
             /\ call' = Call("new_layer", k, a, n.err)
             /\ pc' = IF n.err = None THEN "layer" ELSE "failed"
    /\ UNCHANGED <<peft_config, configs>>

\* layer.update_layer(...) on a dense layer, layer.update_layer_embedding(...)
\* on an embedding
UpdateLayer(k) ==
    /\ k \in LoraKeys(tree)
    /\ hist.updates < MaxUpdates
    /\ \E a \in UpdateArgs : \E seed \in {MaxSeed} :
         LET u == IF tree[k].kind = "LoraLinear"
                  THEN update_layer(tree[k], a.adapter_name, a.r, a.lora_alpha,
                                    a.lora_dropout, a.init_lora_weights, a.r_sum,
                                    a.use_baseline_lora, seed)
                  ELSE update_layer_embedding(tree[k], a.adapter_name, a.r,
                                              a.lora_alpha, a.lora_dropout,
                                              a.init_lora_weights,
                                              a.use_baseline_lora, seed)
         IN  /\ tree' = [tree EXCEPT ![k] = u.layer]
             /\ call' = Call("update_layer", k, a, u.err)
    /\ hist' = [hist EXCEPT !.updates = @ + 1, !.clean = @ /\ ~tree[k].merged]
    /\ UNCHANGED <<peft_config, configs, pc>>

\* layer.active_adapter = adapter_name
SetActiveAdapter(k) ==
    /\ k \in LoraKeys(tree)
    /\ hist.updates < MaxUpdates
    /\ \E adapter_name \in {S_a, S_b} :
         /\ tree' = [tree EXCEPT ![k].active_adapter = adapter_name]
         /\ call' = Call("active_adapter", k, [adapter_name |-> adapter_name], None)
    /\ hist' = [hist EXCEPT !.updates = @ + 1, !.clean = @ /\ ~tree[k].merged]
    /\ UNCHANGED <<peft_config, configs, pc>>

\* layer.disable_adapters = value
SetDisableAdapters(k) ==
    /\ k \in LoraKeys(tree)
    /\ \E value \in BOOL :
         /\ tree' = [tree EXCEPT ![k].disable_adapters = value]
         /\ call' = Call("disable_adapters", k, [value |-> value], None)
    /\ UNCHANGED <<peft_config, configs, pc, hist>>

\* mark_only_lora_as_trainable(model, bias); the call records the policy of
\* the call before it when that was a call of the same function
MarkTrainable ==
    /\ \E bias \in Policies :
         LET m == mark_only_lora_as_trainable(tree, bias)
         IN  /\ tree' = m.tree
             /\ call' = Call("mark_only_lora_as_trainable", <<>>,
                             [bias |-> bias,
                              earlier |-> IF call.op = "mark_only_lora_as_trainable"
                                          THEN call.arg.bias ELSE ""],
                             m.err)
    /\ UNCHANGED <<peft_config, configs, pc, hist>>

\* _freeze_adapter(model, adapter_name)
FreezeAdapter ==
    /\ \E adapter_name \in {S_a, S_baseline_lora} :
         /\ tree' = freeze_adapter(tree, adapter_name)
         /\ call' = Call("freeze_adapter", adapter_name, Nil, None)
    /\ UNCHANGED <<peft_config, configs, pc, hist>>

----------------------------------------------------------------------------
(* Actions of the engine *)

TheEngine == Engine(tree, peft_config, configs)

\* the random initial values the engine's calls draw for new factor tensors
EngineSeeds == {MaxSeed}

\* the engine state after a call that ended as res
Becomes(res) ==
    /\ tree' = res.engine.tree
    /\ peft_config' = res.engine.peft_config
    /\ configs' = res.engine.configs
    /\ UNCHANGED hist

\* the state after a call of op that ended as res
Done(op, name, arg, res) ==
    /\ Becomes(res)
    /\ call' = Call(op, name, arg, res.err)

\* LoraModel(model, config, adapter_name)
Construct ==
    /\ pc = "new"
    /\ \E adapter_name \in {<<>>, S_a, S_b} : \E seed \in EngineSeeds :
         /\ Done("LoraModel", adapter_name, Nil,
                 LoraModel_init(TheEngine, adapter_name, seed))
         /\ pc' = IF call'.err = None THEN "ready" ELSE "failed"

\* what the call record keeps of an add_adapter call
AddAdapterArg(adapter_name, config) ==
    [has_config |-> config # Nil,
     bias |-> IF config = Nil THEN "" ELSE config.bias,
     was_registered |-> adapter_name \in Registered(peft_config),
     others |-> Len(peft_config),
     matched |-> config # Nil /\ config.target_modules # Nil /\
                 \E k \in KeySet : TargetModuleFound(config.target_modules, k)]

\* engine.add_adapter(adapter_name, config)
AddAdapter ==
    /\ pc = "ready"
    /\ \E adapter_name \in AdapterNameSet : \E config \in ConfigSet \cup {Nil} :
       \E seed \in EngineSeeds :
         Done("add_adapter", adapter_name, AddAdapterArg(adapter_name, config),
              add_adapter(TheEngine, adapter_name, config, seed))
    /\ UNCHANGED pc

\* the tree after engine._find_and_replace(adapter_name) ended as res
FindDone(adapter_name, res) ==
    /\ tree' = res.tree
    /\ call' = Call("find_and_replace", adapter_name, Nil, res.err)

\* engine._find_and_replace(adapter_name) for a registered adapter
FindAndReplace ==
    /\ pc = "ready"
    /\ \E adapter_name \in Registered(peft_config) : \E seed \in EngineSeeds :
         FindDone(adapter_name,
                  find_and_replace(tree, ConfigOf(TheEngine, adapter_name),
                                   adapter_name, seed))
    /\ UNCHANGED <<peft_config, configs, pc, hist>>

\* engine.merge_adapter(adapter_name), the name omitted when <<>>
MergeAdapter ==
    /\ pc = "ready"
    /\ \E adapter_name \in Registered(peft_config) \cup {<<>>} :
         Done("merge_adapter", adapter_name, Nil,
              merge_adapter(TheEngine, adapter_name))
    /\ UNCHANGED pc

\* engine.unmerge_adapter(adapter_name)
UnmergeAdapter ==
    /\ pc = "ready"
    /\ \E adapter_name \in Registered(peft_config) \cup {<<>>} :
         Done("unmerge_adapter", adapter_name, Nil,
              unmerge_adapter(TheEngine, adapter_name))
    /\ UNCHANGED pc

\* the source lists add_weighted_adapter is called with
SourceLists ==
    {<<n>> : n \in AdapterNameSet} \cup
    {<<n1, n2>> : n1 \in AdapterNameSet, n2 \in AdapterNameSet}

\* weights[i] = i for every source
WeightsFor(adapters) == [i \in DOMAIN adapters |-> i]

\* engine.add_weighted_adapter(adapters, weights, adapter_name)
AddWeightedAdapter ==
    /\ pc = "ready"
    /\ \E adapters \in SourceLists : \E seed \in EngineSeeds :
         Done("add_weighted_adapter", S_c,
              [adapters |-> adapters, weights |-> WeightsFor(adapters)],
              add_weighted_adapter(TheEngine, adapters, WeightsFor(adapters), S_c, seed))
    /\ UNCHANGED pc

\* engine.merge_and_unload()
MergeAndUnload ==
    /\ pc = "ready"
    /\ Done("merge_and_unload", <<>>, Nil, merge_and_unload(TheEngine))
    /\ UNCHANGED pc

----------------------------------------------------------------------------
(* Specifications *)

\* the registries an engine is constructed with: empty, or one adapter
InitialRegistries ==
    {[peft_config |-> <<>>, configs |-> <<>>]} \cup
    {[peft_config |-> <<[name |-> S_a, cfg |-> 1]>>, configs |-> <<c>>] :
        c \in {LoraConfig(TargetList(<<S_q, S_v>>), r, MaxAlpha, "none", r) : r \in Ranks}
              \cup {LoraConfig(TargetStr(<<".*", "q">>), 1, MaxAlpha, "none", 1)}}

\* the layers of the base model that are LoRA layers already
InitialLoraSets == {{}, {K_hq}, {K_e, K_hq}}

\* a base model, some of whose layers may already be LoRA layers, and the
\* registry handed to LoraModel; the family without default targets is tried
\* on the plain model
Init ==
    \E lora \in InitialLoraSets : \E a \in EngineLayerArgs :
    \E model_type \in ModelTypes : \E reg \in InitialRegistries :
        /\ model_type = "other" => lora = {}
        /\ tree = BuildModel(lora, a, 1, model_type)
        /\ peft_config = reg.peft_config
        /\ configs = reg.configs
        /\ pc = "new"
        /\ call = Call("init", <<>>, a, None)
        /\ hist = History(tree)

Next ==
    \/ Construct
    \/ AddAdapter
    \/ FindAndReplace
    \/ MergeAdapter
    \/ UnmergeAdapter
    \/ AddWeightedAdapter
    \/ MergeAndUnload

Spec == Init /\ [][Next]_vars

\* one LoRA layer, built directly with any of the constructor arguments
LayerInit ==
    \E k \in LoraPositions : \E a \in LayerArgs : \E seed \in Seeds :
        /\ tree = BuildModel({k}, a, seed, "t5")
        /\ peft_config = <<>>
        /\ configs = <<>>
        /\ pc = "new"
        /\ call = Call("init", k, a, None)
        /\ hist = History(tree)

LayerNext ==
    \/ \E k \in KeySet : LayerMerge(k)
    \/ \E k \in KeySet : LayerUnmerge(k)
    \/ \E k \in KeySet : LayerForward(k)
    \/ \E k \in KeySet : LayerTrain(k)

LayerSpec == LayerInit /\ [][LayerNext]_vars

\* a plain base model on which one LoRA layer is constructed and then used
\* through every operation of the layer
OpsInit ==
    /\ tree = BuildModel({}, [adapter_name |-> S_a], 1, "t5")
    /\ peft_config = <<>>
    /\ configs = <<>>
    /\ pc = "new"
    /\ call = Call("init", <<>>, Nil, None)
    /\ hist = History(tree)

OpsNext ==
    \/ \E k \in KeySet : NewLayer(k)
    \/ \E k \in KeySet : LayerMerge(k)
    \/ \E k \in KeySet : LayerUnmerge(k)
    \/ \E k \in KeySet : LayerForward(k)
    \/ \E k \in KeySet : LayerTrain(k)
    \/ \E k \in KeySet : UpdateLayer(k)
    \/ \E k \in KeySet : SetActiveAdapter(k)
    \/ \E k \in KeySet : SetDisableAdapters(k)

OpsSpec == OpsInit /\ [][OpsNext]_vars

\* a model some of whose layers are LoRA layers, every parameter as its
\* constructor left it, on which trainability is marked again and again
MarkInit ==
    \E lora \in SUBSET LoraPositions : \E a \in LayerArgs : \E seed \in Seeds :
        /\ a.lora_dropout = 0 /\ a.r_sum = 1 /\ a.init_lora_weights
        /\ tree = BuildModel(lora, a, seed, "t5")
        /\ peft_config = <<>>
        /\ configs = <<>>
        /\ pc = "new"
        /\ call = Call("init", <<>>, a, None)
        /\ hist = History(tree)

MarkNext ==
    \/ MarkTrainable
    \/ FreezeAdapter

MarkSpec == MarkInit /\ [][MarkNext]_vars

----------------------------------------------------------------------------
(* Properties of one layer, under LayerSpec *)

\* C1: on a LoRA layer (dense or embedding) that is unmerged and whose
\* resolved adapter has rank > 0, merge() directly followed by unmerge()
\* leaves the base weight equal to its value before the merge, and merged
\* false.  Tensors are exact here, so equality stands for the tolerance of
\* the floating-point code.
MergeUnmergeRoundTrip ==
    (/\ call.op = "unmerge"
     /\ call.arg.follows_merge
     /\ call.arg.before_merge.unmerged_rank_positive)
    => /\ tree[call.name].weight.data = call.arg.before_merge.w0
       /\ ~tree[call.name].merged

\* a round trip on a dense layer whose merge did change the base weight
\* through the new pair
MergeUnmergeRoundTripDone ==
    /\ call.op = "unmerge"
    /\ call.arg.follows_merge
    /\ call.arg.before_merge.unmerged_rank_positive
    /\ call.arg.before_merge.changed
    /\ tree[call.name].kind = "LoraLinear"
    /\ LET n == get_active_adapter_name(tree[call.name])
       IN  ~IsZero(MatMul(tree[call.name].loranew_B[n].data,
                          tree[call.name].loranew_A[n].data))

\* C2: the forward of a layer just constructed with init_lora_weights = True
\* (rank > 0, adapters enabled, unmerged) equals the plain base-layer
\* computation, for every input and every dropout mask
FreshForwardIsBase ==
    (call.op = "forward" /\ call.arg.fresh)
    => call.arg.out = BaseForward(tree[call.name], call.arg.x)

\* such a forward on a dense layer with a nonzero input, whose new-pair A
\* factor is not zero
FreshForwardDone ==
    /\ call.op = "forward"
    /\ call.arg.fresh
    /\ tree[call.name].kind = "LoraLinear"
    /\ ~IsZero(call.arg.x)
    /\ LET n == get_active_adapter_name(tree[call.name])
       IN  /\ tree[call.name].r[n] > 0
           /\ ~tree[call.name].merged /\ ~tree[call.name].disable_adapters
           /\ ~IsZero(tree[call.name].loranew_A[n].data)

----------------------------------------------------------------------------
(* Properties of the engine, under Spec *)

\* the entries of named_modules() whose name the target pattern matches
Matches(t, target_modules) ==
    LET key_list == named_modules(t)
    IN  {e \in {key_list[i] : i \in DOMAIN key_list} :
           TargetModuleFound(target_modules, e.key)}

\* the layer kinds _create_new_module wraps
SupportedKinds == {"Linear", "Conv1D", "Embedding"}

\* C3: when N >= 1 module names match the adapter's target pattern, all of
\* them plain modules of supported kinds, _find_and_replace(name) returns and
\* exactly the matched positions hold LoRA layers carrying the original weight
\* and bias objects, every other module being as before
InjectionComplete ==
    [][(/\ call'.op = "find_and_replace"
        /\ Matches(tree, ConfigOf(TheEngine, call'.name).target_modules) # {}
        /\ \A e \in Matches(tree, ConfigOf(TheEngine, call'.name).target_modules) :
             e.sub = <<>> /\ tree[e.top].kind \in SupportedKinds)
       => /\ call'.err = None
          /\ \A k \in KeySet :
               IF \E e \in Matches(tree, ConfigOf(TheEngine, call'.name).target_modules) :
                    e.top = k
               THEN /\ IsLoraLayer(tree'[k])
                    /\ tree'[k].weight.id = tree[k].weight.id
                    /\ tree'[k].weight.data = tree[k].weight.data
                    /\ tree'[k].bias = tree[k].bias
               ELSE tree'[k] = tree[k]]_vars

\* C4: when the target pattern of a newly registered or registered adapter
\* matches no module name, in either matching mode, _find_and_replace and
\* add_adapter raise the no-targets-matched error and the tree is as before
ZeroMatchRaises ==
    [][(/\ call'.op \in {"find_and_replace", "add_adapter"}
        /\ call'.op = "add_adapter" => ~call'.arg.was_registered
        /\ call'.name \in Registered(peft_config')
        /\ Matches(tree, configs'[CfgId(peft_config', call'.name)].target_modules) = {})
       => /\ call'.err = "NoTargetsMatched"
          /\ tree' = tree]_vars

\* add_adapter has raised the error for a regular expression that matches no
\* module name
ZeroMatchRaised ==
    /\ call.op = "add_adapter"
    /\ ~call.arg.was_registered
    /\ call.name \in Registered(peft_config)
    /\ ConfigOf(TheEngine, call.name).target_modules.mode = "str"
    /\ Matches(tree, ConfigOf(TheEngine, call.name).target_modules) = {}
    /\ call.err = "NoTargetsMatched"

\* C5: with an adapter registered already, add_adapter under a new name with
\* a config whose bias is not "none" raises the bias-conflict error, whatever
\* the target modules are
BiasConflictRaised ==
    (/\ call.op = "add_adapter"
     /\ ~call.arg.was_registered
     /\ call.arg.others >= 1
     /\ call.arg.has_config
     /\ call.arg.bias # "none")
    => call.err = "BiasConflict"

\* C6: add_weighted_adapter on registered sources of one rank returns, and in
\* every layer that holds the new adapter the new primary A is the sum over
\* the sources present of weight * scaling * A and the new primary B the sum
\* of weight * B
WeightedCombination ==
    [][(/\ call'.op = "add_weighted_adapter"
        /\ \A i \in DOMAIN call'.arg.adapters :
             call'.arg.adapters[i] \in Registered(peft_config)
        /\ Cardinality({ConfigOf(TheEngine, call'.arg.adapters[i]).r :
                          i \in DOMAIN call'.arg.adapters}) = 1)
       => /\ call'.err = None
          /\ \A k \in LoraKeys(tree') :
               call'.name \in DOMAIN tree'[k].lora_A =>
                 /\ tree'[k].lora_A[call'.name].data =
                      Accumulate(Zeros(tree'[k].lora_A[call'.name].data.r,
                                       tree'[k].lora_A[call'.name].data.c),
                                 tree[k].lora_A, tree[k], call'.arg.adapters,
                                 call'.arg.weights, TRUE)
                 /\ tree'[k].lora_B[call'.name].data =
                      Accumulate(Zeros(tree'[k].lora_B[call'.name].data.r,
                                       tree'[k].lora_B[call'.name].data.c),
                                 tree[k].lora_B, tree[k], call'.arg.adapters,
                                 call'.arg.weights, FALSE)]_vars

\* C7: add_weighted_adapter on registered sources whose ranks differ raises
\* the rank-mismatch error and leaves the registry, every config object and
\* the tree with all its tensors and requires_grad flags as they were
RankMismatchRaises ==
    [][(/\ call'.op = "add_weighted_adapter"
        /\ \A i \in DOMAIN call'.arg.adapters :
             call'.arg.adapters[i] \in Registered(peft_config)
        /\ Cardinality({ConfigOf(TheEngine, call'.arg.adapters[i]).r :
                          i \in DOMAIN call'.arg.adapters}) # 1)
       => /\ call'.err = "RankMismatch"
          /\ UNCHANGED <<tree, peft_config, configs>>]_vars

\* the error was raised for two registered sources of different ranks
RankMismatchRaised ==
    /\ call.op = "add_weighted_adapter"
    /\ call.err = "RankMismatch"
    /\ Len(call.arg.adapters) = 2
    /\ \A i \in DOMAIN call.arg.adapters :
         call.arg.adapters[i] \in Registered(peft_config)
    /\ ConfigOf(TheEngine, call.arg.adapters[1]).r #
       ConfigOf(TheEngine, call.arg.adapters[2]).r

\* C8: add_adapter with a registered name returns without an error and
\* changes nothing: the registry, the config objects and the tree with every
\* layer's adapter state and requires_grad flags, for any config argument
DuplicateNameIsNoOp ==
    [][(call'.op = "add_adapter" /\ call'.arg.was_registered)
       => /\ call'.err = None
          /\ UNCHANGED <<tree, peft_config, configs>>]_vars

\* add_adapter was called with a registered name and a config that differs
\* from the registered one
DuplicateNameTried ==
    /\ call.op = "add_adapter"
    /\ call.arg.was_registered
    /\ call.arg.has_config
    /\ call.arg.bias # ConfigOf(TheEngine, call.name).bias

\* C9: when every module _find_and_replace(name) matches is a LoRA layer that
\* holds earlier adapters but not name, it returns and each such layer is the
\* same object, holds state for name and keeps the state of the earlier
\* adapters
ExistingLayerExtended ==
    [][(/\ call'.op = "find_and_replace"
        /\ Matches(tree, ConfigOf(TheEngine, call'.name).target_modules) # {}
        /\ \A e \in Matches(tree, ConfigOf(TheEngine, call'.name).target_modules) :
             /\ e.sub = <<>>
             /\ IsLoraLayer(tree[e.top])
             /\ call'.name \notin DOMAIN tree[e.top].r)
       => /\ call'.err = None
          /\ \A e \in Matches(tree, ConfigOf(TheEngine, call'.name).target_modules) :
               /\ tree'[e.top].oid = tree[e.top].oid
               /\ call'.name \in DOMAIN tree'[e.top].r
               /\ \A n \in DOMAIN tree[e.top].r :
                    /\ tree'[e.top].r[n] = tree[e.top].r[n]
                    /\ tree'[e.top].scaling[n] = tree[e.top].scaling[n]]_vars

\* C10: with an adapter registered and a LoRA layer in the tree,
\* merge_adapter() and unmerge_adapter() without a name return normally after
\* the per-layer merge (unmerge) was applied to every LoRA layer
MergeAllReturns ==
    [][(/\ call'.op \in {"merge_adapter", "unmerge_adapter"}
        /\ call'.name = <<>>
        /\ Registered(peft_config) # {}
        /\ LoraKeys(tree) # {})
       => /\ call'.err = None
          /\ \A k \in LoraKeys(tree) :
               tree'[k] = IF call'.op = "merge_adapter"
                          THEN merge(tree[k]) ELSE unmerge(tree[k])]_vars

ManyAdaptersNoBias ==
    Len(peft_config) > 1
    => \A i \in DOMAIN peft_config : configs[peft_config[i].cfg].bias = "none"

\* C20: add_weighted_adapter on registered sources of one rank registers the
\* new name with a config object of its own, a copy of the first source's
\* with lora_alpha = r: the first source's config is as before the call and
\* no two registered names share a config object
WeightedConfigIsCopy ==
    [][(/\ call'.op = "add_weighted_adapter"
        /\ \A i \in DOMAIN call'.arg.adapters :
             call'.arg.adapters[i] \in Registered(peft_config)
        /\ Cardinality({ConfigOf(TheEngine, call'.arg.adapters[i]).r :
                          i \in DOMAIN call'.arg.adapters}) = 1)
       => /\ call'.name \in Registered(peft_config')
          /\ configs'[CfgId(peft_config', call'.name)] =
               [ConfigOf(TheEngine, call'.arg.adapters[1]) EXCEPT
                  !.lora_alpha = ConfigOf(TheEngine, call'.arg.adapters[1]).r]
          /\ configs'[CfgId(peft_config', call'.arg.adapters[1])] =
               ConfigOf(TheEngine, call'.arg.adapters[1])
          /\ \A i, j \in DOMAIN peft_config' :
               i # j => peft_config'[i].cfg # peft_config'[j].cfg]_vars

\* the modules _create_new_module returned while _find_and_replace ran for
\* the registered adapter
Built(E, adapter_name, seed) ==
    FindLoop(named_modules(E.tree), 1, FindLocals(E.tree, ConfigOf(E, adapter_name)),
             ConfigOf(E, adapter_name), adapter_name, seed).built

\* the inner dimensions of the primary factor pair and of the new factor pair
\* of adapter n in a dense layer
PairDims(L, n) ==
    <<{L.lora_A[n].data.r, L.lora_B[n].data.c},
      {L.loranew_A[n].data.r, L.loranew_B[n].data.c}>>

\* C21: for an adapter config with accumulated rank r_sum = k and rank r > 0,
\* every dense LoRA layer the engine constructs during injection has a primary
\* factor pair of inner dimension k and a new factor pair of inner dimension r
BuiltWithAccumulatedRank ==
    [][(call'.op = "find_and_replace" /\ ConfigOf(TheEngine, call'.name).r > 0)
       => \A seed \in EngineSeeds :
          \A i \in DOMAIN Built(TheEngine, call'.name, seed) :
             LET L == Built(TheEngine, call'.name, seed)[i]
             IN  L.kind = "LoraLinear"
                 => PairDims(L, call'.name) =
                      <<{ConfigOf(TheEngine, call'.name).r_sum},
                        {ConfigOf(TheEngine, call'.name).r}>>]_vars

\* C22: when add_adapter(name, cfg) raises for a name that was not
\* registered, the name is not registered afterwards, so that a later
\* add_adapter(name, cfg2) is not skipped as a duplicate registration
FailedAddLeavesNoName ==
    [][(call'.op = "add_adapter" /\ call'.err # None /\ ~call'.arg.was_registered)
       => call'.name \notin Registered(peft_config')]_vars

\* C23: LoraModel(model, configs, adapter_name) with a mapping that holds
\* adapter_name ("baseline_lora" when adapter_name is empty) returns with
\* every module whose name matches that config's target pattern being a LoRA
\* layer; with a name the mapping does not hold, the set of LoRA layers is as
\* it was before the construction
ConstructionInjects ==
    [][call'.op = "LoraModel"
       => LET name == IF call'.name # <<>> THEN call'.name ELSE S_baseline_lora
          IN  IF name \in Registered(peft_config)
              THEN /\ call'.err = None
                   /\ \A e \in Matches(tree, ConfigOf(TheEngine, name).target_modules) :
                        e.sub = <<>> => IsLoraLayer(tree'[e.top])
              ELSE LoraKeys(tree') = LoraKeys(tree)]_vars

----------------------------------------------------------------------------
(* Properties of trainability marking, under MarkSpec *)

\* C12: after mark_only_lora_as_trainable(model, policy) returns, every base
\* weight is frozen and every bias is as the policy says: frozen with "none",
\* trainable with "all", trainable exactly on the LoRA layers with
\* "lora_only"; whatever the flags were before, an earlier call with another
\* policy included
MarkFreezesAllButAdapters ==
    [][call'.op = "mark_only_lora_as_trainable"
       => /\ call'.err = None
          /\ \A k \in KeySet :
               tree'[k].kind # "Container" =>
                 /\ ~tree'[k].weight.requires_grad
                 /\ tree'[k].bias # Nil =>
                      (tree'[k].bias.requires_grad <=>
                         \/ call'.arg.bias = "all"
                         \/ call'.arg.bias = "lora_only" /\ IsLoraLayer(tree'[k]))]_vars

\* a call with "lora_only" right after a call with "all", on a model that
\* holds a LoRA layer with a bias and a plain layer with a bias
MarkedAgain ==
    /\ call.op = "mark_only_lora_as_trainable"
    /\ call.arg.bias = "lora_only"
    /\ call.arg.earlier = "all"
    /\ IsLoraLayer(tree[K_hv]) /\ tree[K_hv].bias.requires_grad
    /\ ~IsLoraLayer(tree[K_n]) /\ ~tree[K_n].bias.requires_grad

\* C24: mark_only_lora_as_trainable leaves gradient tracking enabled on all
\* four factor tensors of every adapter of every dense LoRA layer: lora_A and
\* lora_B, and loranew_A and loranew_B, whatever the adapter's name
MarkKeepsFactorsTrainable ==
    [][call'.op = "mark_only_lora_as_trainable"
       => \A k \in LoraKeys(tree) :
            tree[k].kind = "LoraLinear" =>
              /\ \A n \in DOMAIN tree[k].lora_A :
                   /\ tree[k].lora_A[n].requires_grad => tree'[k].lora_A[n].requires_grad
                   /\ tree[k].lora_B[n].requires_grad => tree'[k].lora_B[n].requires_grad
              /\ \A n \in DOMAIN tree[k].loranew_A :
                   /\ tree[k].loranew_A[n].requires_grad
                        => tree'[k].loranew_A[n].requires_grad
                   /\ tree[k].loranew_B[n].requires_grad
                        => tree'[k].loranew_B[n].requires_grad]_vars

----------------------------------------------------------------------------
(* Properties of one layer and its adapters, under OpsSpec *)

\* the names that have a factor pair in the layer
PairNames(L) ==
    IF L.kind = "LoraLinear" THEN DOMAIN L.lora_A \cup DOMAIN L.loranew_A
    ELSE DOMAIN L.lora_embedding_A

\* C14: constructing a dense or an embedding LoRA layer with r = 0 succeeds
\* and creates no factor pair, and while every rank of the layer is 0 the
\* base weight is the one the layer was built with and forward returns what
\* the plain base layer returns
RankZeroDisables ==
    /\ (call.op = "new_layer" /\ call.arg.r = 0)
       => /\ call.err = None
          /\ IsLoraLayer(tree[call.name])
          /\ PairNames(tree[call.name]) = {}
    /\ \A k \in LoraKeys(tree) :
         (\A n \in DOMAIN tree[k].r : tree[k].r[n] = 0)
         => /\ tree[k].weight.data = hist.w0[k]
            /\ (call.op = "forward" /\ call.name = k)
               => call.arg.out = BaseForward(tree[k], call.arg.x)

\* the adapter the claims say every operation uses: "baseline_lora" when it
\* has a factor pair in the layer, active_adapter otherwise
Resolved(L) ==
    IF HasFactors(L, S_baseline_lora) THEN S_baseline_lora ELSE L.active_adapter

\* the weight delta of adapter n of the layer: both pairs of a dense layer,
\* the embedding pair of an embedding; nothing at rank 0
RankDelta(L, n) ==
    IF L.r[n] = 0 THEN Zeros(L.weight.data.r, L.weight.data.c)
    ELSE IF L.kind = "LoraEmbedding"
    THEN Delta(L.lora_embedding_B[n], L.lora_embedding_A[n], TRUE, L.scaling[n])
    ELSE IF n \in DOMAIN L.loranew_A
    THEN MatAdd(Delta(L.lora_B[n], L.lora_A[n], L.fan_in_fan_out, L.scaling[n]),
                Delta(L.loranew_B[n], L.loranew_A[n], L.fan_in_fan_out, L.scaling[n]))
    ELSE Delta(L.lora_B[n], L.lora_A[n], L.fan_in_fan_out, L.scaling[n])

\* the base weight the layer has with the delta of adapter n folded in, when
\* n has a factor pair
Folded(L, n) ==
    IF HasFactors(L, n) THEN MatAdd(L.weight.data, RankDelta(L, n))
    ELSE L.weight.data

\* C15: merge, unmerge and forward of a dense or embedding layer use the
\* same adapter, "baseline_lora" when it has a factor pair in the layer
\* whatever active_adapter is, active_adapter otherwise: merge adds that
\* adapter's delta, unmerge subtracts it, and the forward of the unmerged
\* layer is the plain forward with that delta folded in
OneResolution ==
    [][\A k \in LoraKeys(tree) :
         /\ (call'.op = "merge" /\ call'.name = k /\ ~tree[k].merged)
            => tree'[k].weight.data = Folded(tree[k], Resolved(tree[k]))
         /\ (call'.op = "unmerge" /\ call'.name = k /\ tree[k].merged)
            => tree[k].weight.data = Folded(tree'[k], Resolved(tree[k]))
         /\ (call'.op = "forward" /\ call'.name = k /\ ~tree[k].merged
               /\ ~tree[k].disable_adapters)
            => call'.arg.out =
                 BaseForward([tree[k] EXCEPT
                                !.weight.data = Folded(tree[k], Resolved(tree[k]))],
                             call'.arg.x)]_vars

\* a merge that changed the base weight of a layer in which both
\* "baseline_lora" and the active adapter have a factor pair, of different
\* deltas
BaselineOverridesActive ==
    /\ call.op = "merge"
    /\ call.arg.changed
    /\ LET L == tree[call.name]
       IN  /\ L.active_adapter # S_baseline_lora
           /\ HasFactors(L, S_baseline_lora)
           /\ HasFactors(L, L.active_adapter)
           /\ RankDelta(L, S_baseline_lora) # RankDelta(L, L.active_adapter)

\* the layer at k holds exactly the delta of the adapter its operations
\* resolve to while merged, and its original base weight while unmerged
FoldedIsResolved(k) ==
    IF tree[k].merged
    THEN /\ HasFactors(tree[k], Resolved(tree[k]))
         /\ tree[k].weight.data =
              MatAdd(hist.w0[k], RankDelta(tree[k], Resolved(tree[k])))
    ELSE tree[k].weight.data = hist.w0[k]

\* C16 as stated: after any interleaving of merge, unmerge, forward,
\* update_layer / update_layer_embedding and assignments to active_adapter,
\* a merged layer holds the delta of exactly the adapter merge and unmerge
\* resolve to, so an unmerged layer holds its original base weight
MergedDeltaIsResolved ==
    \A k \in LoraKeys(tree) : FoldedIsResolved(k)

\* C16, amended: the same, for the interleavings in which update_layer /
\* update_layer_embedding are called and active_adapter is assigned only
\* while the layer is unmerged
MergedDeltaIsResolvedIfUpdatedUnmerged ==
    hist.clean => \A k \in LoraKeys(tree) : FoldedIsResolved(k)

\* a merged layer with two adapters, updated while unmerged only, whose base
\* weight is not the original one
MergedAfterUpdate ==
    /\ hist.clean
    /\ hist.updates > 0
    /\ \E k \in LoraKeys(tree) :
         /\ tree[k].merged
         /\ Cardinality(PairNames(tree[k])) > 1
         /\ tree[k].weight.data # hist.w0[k]

\* C17: a forward with disable_adapters set, on a dense or embedding layer
\* in any reachable state, merged ones included, returns what the plain base
\* layer returns with the original base weight and leaves the layer unmerged
DisabledForwardIsBase ==
    [][\A k \in LoraKeys(tree) :
         (call'.op = "forward" /\ call'.name = k /\ tree[k].disable_adapters)
         => /\ call'.arg.out =
                 BaseForward([tree[k] EXCEPT !.weight.data = hist.w0[k]], call'.arg.x)
            /\ ~tree'[k].merged]_vars

\* C18: a layer starts unmerged; merge() on a merged layer, unmerge() on an
\* unmerged layer, and either of them when the resolved adapter has no
\* factor pair, return without an error and leave the layer, its base weight
\* and its merged flag as they were; so a second merge() right after a
\* merge(), and a second unmerge() right after an unmerge(), change nothing
MergeIsIdempotent ==
    [][/\ (call'.op = "new_layer" /\ call'.err = None)
          => ~tree'[call'.name].merged
       /\ \A k \in LoraKeys(tree) :
            /\ (/\ call'.op = "merge" /\ call'.name = k
                /\ \/ tree[k].merged
                   \/ ~HasFactors(tree[k], Resolved(tree[k]))
                   \/ call.op = "merge" /\ call.name = k)
               => call'.err = None /\ tree'[k] = tree[k]
            /\ (/\ call'.op = "unmerge" /\ call'.name = k
                /\ \/ ~tree[k].merged
                   \/ ~HasFactors(tree[k], Resolved(tree[k]))
                   \/ call.op = "unmerge" /\ call.name = k)
               => call'.err = None /\ tree'[k] = tree[k]]_vars

\* merge() was called on a dense layer that was merged already, with an
\* adapter whose delta is not zero
MergedTwice ==
    /\ call.op = "merge"
    /\ ~call.arg.unmerged_rank_positive
    /\ ~call.arg.changed
    /\ LET L == tree[call.name]
       IN  /\ L.kind = "LoraLinear"
           /\ L.merged
           /\ HasFactors(L, Resolved(L))
           /\ L.r[Resolved(L)] > 0
           /\ ~IsZero(RankDelta(L, Resolved(L)))

\* the inner dimension of the factor pair built at the adapter's rank: the
\* new pair of a dense layer, the embedding pair of an embedding
InnerDims(L, n) ==
    IF L.kind = "LoraLinear"
    THEN {L.loranew_A[n].data.r, L.loranew_B[n].data.c}
    ELSE {L.lora_embedding_A[n].data.r, L.lora_embedding_B[n].data.c}

\* C19: after any update_layer and update_layer_embedding calls, those that
\* raise and those that take the baseline_lora branch included, every
\* adapter of a layer that has a factor pair has a rank > 0 that is the inner
\* dimension of the pair, and scaling = lora_alpha / r
AdapterStateConsistent ==
    \A k \in LoraKeys(tree) : \A n \in PairNames(tree[k]) :
        /\ tree[k].r[n] > 0
        /\ InnerDims(tree[k], n) = {tree[k].r[n]}
        /\ tree[k].scaling[n] = Scaling(tree[k].lora_alpha[n], tree[k].r[n])

====
